---------------------------- MODULE Spec2Model ----------------------------
(***************************************************************************)
(* The natural-language command pipeline of sqlTable: response cleaning,   *)
(* pattern-match translation, the commands.txt SQL cache, the Ollama host  *)
(* fallback and the command runner of the renderer.                        *)
(*                                                                         *)
(* A JavaScript string is a sequence of one-character strings.  The grave  *)
(* accent U+0060 is written Backtick, because the character itself cannot  *)
(* appear inside a string of this module.                                  *)
(***************************************************************************)
EXTENDS Naturals, Integers, Sequences, FiniteSets, TLC

VARIABLES
  raw,        \* data.message.content of a 2xx chat response (makeOllamaRequest)
  cleaned,    \* what makeOllamaRequest settles with for that content
  sanpc,      \* position of the response-cleaning run
  commandsTxt, \* commands.txt: [exists, content]
  cmdArg,     \* the commandText the cache handlers are invoked with
  inserts,    \* the insert-sql-into-commands-file calls made so far, with their outcome
  lastGet,    \* the latest get-sql-for-command call, with its outcome
  env,        \* process.env: OLLAMA_HOST and OLLAMA_PORT
  llmLog,     \* llm-prompt-log.txt: [exists, records]
  startup,    \* the startup check of app.whenReady: position, first probe, llmStatus
  testConn,   \* the test-ollama-connection handler: position, first result, returned value
  tr,         \* the translate-to-sql handler: position, arguments, attempts, result
  commands,             \* App.svelte: the commands loaded from commands.txt
  currentCommandIndex,  \* App.svelte: index of the next command
  commandsLoaded,       \* App.svelte: whether loadCommands has succeeded
  executingCommand,     \* App.svelte: a handleExecuteNextCommand run is past its guard
  run,                  \* the locals of that run: position, naturalLanguage, existingSql, sql
  commandResults,       \* what handleCommandResult was given, in order
  renderer,             \* App.svelte: page loaded, the 1 s status timer, llmStatus
  pat                   \* a call of translateSimplePattern: arguments and result

sanvars == <<raw, cleaned, sanpc>>
cachevars == <<commandsTxt, cmdArg, inserts, lastGet>>

netvars == <<env, llmLog, startup, testConn, tr>>

runvars == <<commands, currentCommandIndex, commandsLoaded, executingCommand, run,
             commandResults, renderer>>

vars == <<raw, cleaned, sanpc, commandsTxt, cmdArg, inserts, lastGet,
          env, llmLog, startup, testConn, tr,
          commands, currentCommandIndex, commandsLoaded, executingCommand, run,
          commandResults, renderer, pat>>

(***************************************************************************)
(* Strings                                                                 *)
(***************************************************************************)
Backtick == "BACKTICK"
NL == "\n"
Fence == <<Backtick, Backtick, Backtick>>

\* The characters String.prototype.trim removes and the regexp class \s matches.
WhitespaceChars == {" ", "\n", "\t", "\r"}

IsWs(c) == c \in WhitespaceChars

UpperChars == <<"A","B","C","D","E","F","G","H","I","J","K","L","M",
                "N","O","P","Q","R","S","T","U","V","W","X","Y","Z">>
LowerChars == <<"a","b","c","d","e","f","g","h","i","j","k","l","m",
                "n","o","p","q","r","s","t","u","v","w","x","y","z">>

LowerChar(c) ==
  IF \E i \in 1..26 : UpperChars[i] = c
  THEN LowerChars[CHOOSE i \in 1..26 : UpperChars[i] = c]
  ELSE c

ToLowerCase(s) == [i \in 1..Len(s) |-> LowerChar(s[i])]

\* s.slice(i - 1): the characters from position i (1-based) on.
From(s, i) == IF i > Len(s) THEN <<>> ELSE SubSeq(s, i, Len(s))

\* The literal p stands in s at position i.
HasAt(s, i, p) ==
  /\ i >= 1
  /\ i + Len(p) - 1 <= Len(s)
  /\ \A k \in 1..Len(p) : s[i + k - 1] = p[k]

\* The same, ignoring letter case (the regexp flag i).
HasAtCI(s, i, p) ==
  /\ i >= 1
  /\ i + Len(p) - 1 <= Len(s)
  /\ \A k \in 1..Len(p) : LowerChar(s[i + k - 1]) = LowerChar(p[k])

StartsWith(s, p) == HasAt(s, 1, p)

EndsWith(s, p) == Len(p) <= Len(s) /\ HasAt(s, Len(s) - Len(p) + 1, p)

Includes(s, p) == \E i \in 1..(Len(s) + 1) : HasAt(s, i, p)

\* Position of the first occurrence of p in s at or after i; 0 when there is none.
IndexFrom(s, p, i) ==
  IF \E k \in i..(Len(s) + 1) : HasAt(s, k, p)
  THEN CHOOSE k \in i..(Len(s) + 1) :
         HasAt(s, k, p) /\ \A j \in i..(k - 1) : ~HasAt(s, j, p)
  ELSE 0

\* First position at or after i that holds no whitespace (Len(s) + 1 at the end):
\* where a greedy \s* that started at i stops.
SkipWs(s, i) ==
  CHOOSE k \in i..(Len(s) + 1) :
    /\ \A j \in i..(k - 1) : IsWs(s[j])
    /\ (k = Len(s) + 1 \/ ~IsWs(s[k]))

\* Length of s without its trailing whitespace.
EndNoWs(s) ==
  CHOOSE k \in 0..Len(s) :
    /\ \A j \in (k + 1)..Len(s) : IsWs(s[j])
    /\ (k = 0 \/ ~IsWs(s[k]))

Trim(s) ==
  LET a == SkipWs(s, 1)
      b == EndNoWs(s)
  IN  IF a > b THEN <<>> ELSE SubSeq(s, a, b)

(***************************************************************************)
(* Response cleaning of makeOllamaRequest (main.js 771-805)                *)
(***************************************************************************)
\* .replace(/^```\s*sql\s*\n?/i, '')
StripSqlFenceStart(s) ==
  IF ~StartsWith(s, Fence) THEN s
  ELSE LET a == SkipWs(s, 4)
       IN  IF HasAtCI(s, a, <<"s", "q", "l">>)
           THEN LET b == SkipWs(s, a + 3)
                    \* \s* is greedy and has taken every newline: \n? matches empty
                IN  From(s, b)
           ELSE s

\* .replace(/^```\s*\n?/, '')
StripFenceStart(s) ==
  IF StartsWith(s, Fence) THEN From(s, SkipWs(s, 4)) ELSE s

\* .replace(/\n?```\s*$/, '')
StripFenceEnd(s) ==
  LET e == EndNoWs(s)
  IN  IF e >= 3 /\ HasAt(s, e - 2, Fence)
      THEN IF e >= 4 /\ s[e - 3] = NL
           THEN SubSeq(s, 1, e - 4)
           ELSE SubSeq(s, 1, e - 3)
      ELSE s

\* .replace(/^`+|`+$/g, '')
StripEdgeBackticks(s) ==
  LET a == CHOOSE k \in 1..(Len(s) + 1) :
             /\ \A j \in 1..(k - 1) : s[j] = Backtick
             /\ (k = Len(s) + 1 \/ s[k] # Backtick)
      t == From(s, a)
      b == CHOOSE k \in 0..Len(t) :
             /\ \A j \in (k + 1)..Len(t) : t[j] = Backtick
             /\ (k = 0 \/ t[k] # Backtick)
  IN  SubSeq(t, 1, b)

\* .replace(/`/g, '')
RemoveBackticks(s) == SelectSeq(s, LAMBDA c : c # Backtick)

\* cleanedSql.match(/```(?:sql)?\s*\n?(.*?)\n?```/is): [matched, group 1]
\* The match starts at the first fence; (?:sql)? and \s* are greedy, (.*?) is lazy
\* and stops at the first closing fence, leaving out one newline before it.
BacktickMatch(s) ==
  LET p == IndexFrom(s, Fence, 1)
  IN  IF p = 0 THEN [matched |-> FALSE, group |-> <<>>]
      ELSE LET a0 == IF HasAtCI(s, p + 3, <<"s", "q", "l">>) THEN p + 6 ELSE p + 3
               a  == SkipWs(s, a0)
               q  == IndexFrom(s, Fence, a)
           IN  IF q = 0 THEN [matched |-> FALSE, group |-> <<>>]
               ELSE IF q - 1 >= a /\ s[q - 1] = NL
                    THEN [matched |-> TRUE, group |-> SubSeq(s, a, q - 2)]
                    ELSE [matched |-> TRUE, group |-> SubSeq(s, a, q - 1)]

\* main.js 776-805: sql is data.message.content trimmed, and is not empty.
CleanSql(sql) ==
  LET c1 == Trim(StripEdgeBackticks(StripFenceEnd(StripFenceStart(StripSqlFenceStart(sql)))))
      c2 == IF Includes(c1, Fence) \/ StartsWith(c1, <<Backtick>>)
            THEN LET m == BacktickMatch(c1)
                 IN  IF m.matched /\ m.group # <<>>
                     THEN Trim(m.group)
                     ELSE Trim(RemoveBackticks(c1))
            ELSE c1
      c3 == IF c2 = <<>> THEN Trim(sql) ELSE c2
  IN  Trim(StripEdgeBackticks(c3))


(***************************************************************************)
(* The SQL cache kept in commands.txt (main.js 537-614)                    *)
(***************************************************************************)
\* A value that may be null.
Null == [isNull |-> TRUE, val |-> <<>>]
Some(s) == [isNull |-> FALSE, val |-> s]

\* commands.txt: whether it exists, and its content.
NoFile == [exists |-> FALSE, content |-> <<>>]
FileOf(c) == [exists |-> TRUE, content |-> c]

\* content.split('\n'): never empty, the empty string gives one empty line.
RECURSIVE SplitLines(_)
SplitLines(s) ==
  LET k == IndexFrom(s, <<NL>>, 1)
  IN  IF k = 0 \/ k > Len(s) THEN <<s>>
      ELSE <<SubSeq(s, 1, k - 1)>> \o SplitLines(From(s, k + 1))

\* lines.join('\n')
RECURSIVE JoinLines(_)
JoinLines(lines) ==
  IF Len(lines) = 0 THEN <<>>
  ELSE IF Len(lines) = 1 THEN lines[1]
  ELSE lines[1] \o <<NL>> \o JoinLines(Tail(lines))

\* main.js 552 and 591: trimmedLine === commandText && !trimmedLine.startsWith('[')
MatchesCommand(line, commandText) ==
  LET trimmedLine == Trim(line)
  IN  trimmedLine = commandText /\ ~StartsWith(trimmedLine, <<"[">>)

\* The loops of main.js 548-565 and 587-595: index of the first matching line, 0 for none.
FoundIndex(lines, commandText) ==
  IF \E i \in 1..Len(lines) : MatchesCommand(lines[i], commandText)
  THEN CHOOSE i \in 1..Len(lines) :
         /\ MatchesCommand(lines[i], commandText)
         /\ \A j \in 1..(i - 1) : ~MatchesCommand(lines[j], commandText)
  ELSE 0

\* A lookup that goes on to later occurrences of the command when the first one has
\* no SQL line.
GetSqlAnyOccurrence(file, commandText) ==
  IF ~file.exists THEN Null
  ELSE LET lines == SplitLines(file.content)
           hits  == { i \in 1..(Len(lines) - 1) :
                        /\ MatchesCommand(lines[i], commandText)
                        /\ StartsWith(Trim(lines[i + 1]), <<"[">>)
                        /\ EndsWith(Trim(lines[i + 1]), <<"]">>) }
       IN  IF hits = {} THEN Null
           ELSE LET i == CHOOSE h \in hits : \A g \in hits : h <= g
                    nextLine == Trim(lines[i + 1])
                IN  Some(SubSeq(nextLine, 2, Len(nextLine) - 1))

\* ipcMain.handle('get-sql-for-command'): the value the handler resolves with.
GetSqlForCommand(file, commandText) ==
  IF ~file.exists THEN Null
  ELSE LET lines == SplitLines(file.content)
           i     == FoundIndex(lines, commandText)
       IN  IF i = 0 THEN Null
           ELSE IF i + 1 <= Len(lines)
                THEN LET nextLine == Trim(lines[i + 1])
                     IN  IF StartsWith(nextLine, <<"[">>) /\ EndsWith(nextLine, <<"]">>)
                         THEN Some(SubSeq(nextLine, 2, Len(nextLine) - 1))
                         ELSE Null
                ELSE Null

\* lines.splice(at, 0, line)
InsertAt(lines, at, line) ==
  SubSeq(lines, 1, at) \o <<line>> \o SubSeq(lines, at + 1, Len(lines))

\* An insert that puts the SQL line after the last line that matches the command.
InsertSqlAfterLastMatch(file, commandText, sql) ==
  LET sqlLine == <<"[">> \o sql \o <<"]">>
  IN  IF ~file.exists THEN [threw |-> TRUE, file |-> file]
      ELSE LET lines == SplitLines(file.content)
               hits  == { i \in 1..Len(lines) : MatchesCommand(lines[i], commandText) }
           IN  IF hits = {} THEN [threw |-> TRUE, file |-> file]
               ELSE LET last == CHOOSE h \in hits : \A g \in hits : g <= h
                    IN  [threw |-> FALSE,
                         file  |-> FileOf(JoinLines(InsertAt(lines, last, sqlLine)))]

\* An insert that creates the command line at the end of the file when it is missing.
InsertSqlOrAppendCommand(file, commandText, sql) ==
  LET sqlLine == <<"[">> \o sql \o <<"]">>
  IN  IF ~file.exists THEN [threw |-> TRUE, file |-> file]
      ELSE LET lines      == SplitLines(file.content)
               foundIndex == FoundIndex(lines, commandText)
           IN  IF foundIndex = 0
               THEN [threw |-> FALSE,
                     file  |-> FileOf(JoinLines(lines \o <<commandText, sqlLine>>))]
               ELSE [threw |-> FALSE,
                     file  |-> FileOf(JoinLines(InsertAt(lines, foundIndex, sqlLine)))]

\* An insert that overwrites the line after the command when that line starts with '['.
InsertSqlReplacing(file, commandText, sql) ==
  LET sqlLine == <<"[">> \o sql \o <<"]">>
  IN  IF ~file.exists THEN [threw |-> TRUE, file |-> file]
      ELSE LET lines      == SplitLines(file.content)
               foundIndex == FoundIndex(lines, commandText)
           IN  IF foundIndex = 0 THEN [threw |-> TRUE, file |-> file]
               ELSE IF foundIndex < Len(lines) /\ StartsWith(Trim(lines[foundIndex + 1]), <<"[">>)
                    THEN [threw |-> FALSE,
                          file  |-> FileOf(JoinLines([lines EXCEPT ![foundIndex + 1] = sqlLine]))]
                    ELSE [threw |-> FALSE,
                          file  |-> FileOf(JoinLines(InsertAt(lines, foundIndex, sqlLine)))]

\* ipcMain.handle('insert-sql-into-commands-file'): whether the handler throws, and
\* commands.txt afterwards.
InsertSqlIntoCommandsFile(file, commandText, sql) ==
  IF ~file.exists THEN [threw |-> TRUE, file |-> file]
  ELSE LET lines      == SplitLines(file.content)
           foundIndex == FoundIndex(lines, commandText)
       IN  IF foundIndex = 0 THEN [threw |-> TRUE, file |-> file]
           ELSE LET sqlLine == <<"[">> \o sql \o <<"]">>
                IN  [threw |-> FALSE,
                     file  |-> FileOf(JoinLines(InsertAt(lines, foundIndex, sqlLine)))]

(***************************************************************************)
(* translateSimplePattern (main.js 927-952)                                *)
(***************************************************************************)
Digits == {"0", "1", "2", "3", "4", "5", "6", "7", "8", "9"}

\* The regexp class \w.
IsWordChar(c) ==
  \/ \E i \in 1..26 : c = LowerChars[i] \/ c = UpperChars[i]
  \/ c \in Digits
  \/ c = "_"

IsQuote(c) == c = "'" \/ c = "\""

\* First position at or after i that holds no word character.
SkipWord(s, i) ==
  CHOOSE k \in i..(Len(s) + 1) :
    /\ \A j \in i..(k - 1) : IsWordChar(s[j])
    /\ (k = Len(s) + 1 \/ ~IsWordChar(s[k]))

\* First position at or after i that holds a quote (Len(s) + 1 when none does):
\* where a greedy [^'"]+ that started at i stops.
SkipNonQuote(s, i) ==
  CHOOSE k \in i..(Len(s) + 1) :
    /\ \A j \in i..(k - 1) : ~IsQuote(s[j])
    /\ (k = Len(s) + 1 \/ IsQuote(s[k]))

\* A match that takes the value from the first character after the blanks, an
\* opening quote included.
WhereMatchAtKeepingQuote(s, p) ==
  LET a == SkipWs(s, p + 5)
      b == SkipWord(s, a)
      c == SkipWs(s, b)
      d == SkipWs(s, c + 1)
      none == [matched |-> FALSE, col |-> <<>>, val |-> <<>>]
  IN  IF a = p + 5 \/ b = a \/ c > Len(s) THEN none
      ELSE IF s[c] # "=" THEN none
      ELSE IF d <= Len(s)
      THEN [matched |-> TRUE, col |-> SubSeq(s, a, b - 1),
            val |-> SubSeq(s, d, SkipNonQuote(s, d + 1) - 1)]
      ELSE none

\* /where\s+(\w+)\s*=\s*['"]?([^'"]+)['"]?/i tried at position p, where "where"
\* stands.  \s+, \w+ and the \s* before '=' cannot give back characters; the \s*
\* after '=' gives back one blank when neither a value nor a quote and a value
\* follows it, and that blank becomes the value.
WhereMatchAt(s, p) ==
  LET a == SkipWs(s, p + 5)
      b == SkipWord(s, a)
      c == SkipWs(s, b)
      d == SkipWs(s, c + 1)
      none == [matched |-> FALSE, col |-> <<>>, val |-> <<>>]
  IN  IF a = p + 5 \/ b = a \/ c > Len(s) THEN none
      ELSE IF s[c] # "=" THEN none
      ELSE LET col == SubSeq(s, a, b - 1)
           IN  IF d <= Len(s) /\ ~IsQuote(s[d])
               THEN [matched |-> TRUE, col |-> col,
                     val |-> SubSeq(s, d, SkipNonQuote(s, d) - 1)]
               ELSE IF d + 1 <= Len(s) /\ ~IsQuote(s[d + 1])
               THEN [matched |-> TRUE, col |-> col,
                     val |-> SubSeq(s, d + 1, SkipNonQuote(s, d + 1) - 1)]
               ELSE IF d > c + 1
               THEN [matched |-> TRUE, col |-> col, val |-> SubSeq(s, d - 1, d - 1)]
               ELSE none

\* lower.match(...): the leftmost position at which the pattern matches.
WhereMatch(s) ==
  LET hits == { p \in 1..Len(s) :
                  HasAtCI(s, p, <<"w", "h", "e", "r", "e">>) /\ WhereMatchAt(s, p).matched }
  IN  IF hits = {} THEN [matched |-> FALSE, col |-> <<>>, val |-> <<>>]
      ELSE WhereMatchAt(s, CHOOSE p \in hits : \A q \in hits : p <= q)

SelectAllFrom(tableName) ==
  <<"S","E","L","E","C","T"," ","*"," ","F","R","O","M"," ","\"">> \o tableName \o <<"\"">>

SelectCountFrom(tableName) ==
  <<"S","E","L","E","C","T"," ","C","O","U","N","T","(","*",")"," ","F","R","O","M"," ","\"">>
    \o tableName \o <<"\"">>

\* A translation that looks for where before it looks for count.
TranslateSimplePatternWhereFirst(naturalLanguage, tableName, tableSchema) ==
  LET lower == ToLowerCase(naturalLanguage)
      sql(q) == [threw |-> FALSE, sql |-> q]
  IN  IF ~tableSchema.isArray THEN [threw |-> TRUE, sql |-> <<>>]
      ELSE IF \/ Includes(lower, <<"s","h","o","w"," ","a","l","l">>)
              \/ Includes(lower, <<"s","e","l","e","c","t"," ","a","l","l">>)
              \/ Includes(lower, <<"g","e","t"," ","a","l","l">>)
      THEN sql(SelectAllFrom(tableName))
      ELSE IF Includes(lower, <<"w","h","e","r","e">>)
      THEN LET whereMatch == WhereMatch(lower)
           IN  IF whereMatch.matched
               THEN sql(SelectAllFrom(tableName)
                          \o <<" ","W","H","E","R","E"," ","\"">> \o whereMatch.col
                          \o <<"\""," ","="," ","'">> \o whereMatch.val \o <<"'">>)
               ELSE sql(SelectAllFrom(tableName) \o <<" ","W","H","E","R","E"," ","1","=","1">>)
      ELSE IF Includes(lower, <<"c","o","u","n","t">>)
      THEN sql(SelectCountFrom(tableName))
      ELSE sql(SelectAllFrom(tableName))

\* A table schema as the renderer passes it: an array of columns, or something
\* that is no array (tableSchema.map is then not a function).
\* The result: whether the call throws, and the SQL it returns.
TranslateSimplePattern(naturalLanguage, tableName, tableSchema) ==
  LET lower == ToLowerCase(naturalLanguage)
      sql(q) == [threw |-> FALSE, sql |-> q]
  IN  IF ~tableSchema.isArray THEN [threw |-> TRUE, sql |-> <<>>]
      ELSE IF \/ Includes(lower, <<"s","h","o","w"," ","a","l","l">>)
              \/ Includes(lower, <<"s","e","l","e","c","t"," ","a","l","l">>)
              \/ Includes(lower, <<"g","e","t"," ","a","l","l">>)
      THEN sql(SelectAllFrom(tableName))
      ELSE IF Includes(lower, <<"c","o","u","n","t">>)
      THEN sql(SelectCountFrom(tableName))
      ELSE IF Includes(lower, <<"w","h","e","r","e">>)
      THEN LET whereMatch == WhereMatch(lower)
           IN  IF whereMatch.matched
               THEN sql(SelectAllFrom(tableName)
                          \o <<" ","W","H","E","R","E"," ","\"">> \o whereMatch.col
                          \o <<"\""," ","="," ","'">> \o whereMatch.val \o <<"'">>)
               ELSE sql(SelectAllFrom(tableName) \o <<" ","W","H","E","R","E"," ","1","=","1">>)
      ELSE sql(SelectAllFrom(tableName))

(***************************************************************************)
(* Ollama configuration and the HTTP helpers of main.js                    *)
(***************************************************************************)
\* An environment variable: absent, or present with a value (possibly empty).
Unset == [set |-> FALSE, val |-> ""]
SetTo(v) == [set |-> TRUE, val |-> v]

\* process.env.X used as a condition: undefined and '' are falsy.
Truthy(e) == e.set /\ e.val # ""

\* process.env.X || d
OrDefault(e, d) == IF Truthy(e) THEN e.val ELSE d

\* main.js 109-110, 618-619, 860-861
OllamaHost(e) == OrDefault(e.OLLAMA_HOST, "localhost")
OllamaPort(e) == OrDefault(e.OLLAMA_PORT, "11434")

\* What the network does with a GET /api/tags (testOllamaConnection).
ProbeOutcomes ==
  { [kind |-> "response", statusCode |-> 200, code |-> ""],
    [kind |-> "response", statusCode |-> 404, code |-> ""],
    [kind |-> "error", statusCode |-> 0, code |-> "ECONNREFUSED"],
    [kind |-> "error", statusCode |-> 0, code |-> "ENOTFOUND"],
    [kind |-> "timeout", statusCode |-> 0, code |-> ""] }

\* A probe whose promise is rejected on a transport error or a timeout.
TestOllamaConnectionRejecting(o) ==
  IF o.kind = "response"
  THEN [rejected |-> FALSE, success |-> (o.statusCode = 200),
        statusCode |-> o.statusCode, error |-> ""]
  ELSE [rejected |-> TRUE, success |-> FALSE, statusCode |-> 0, error |-> o.code]

\* A probe that takes any HTTP response as a success.
TestOllamaConnectionAnyResponse(o) ==
  IF o.kind = "response"
  THEN [rejected |-> FALSE, success |-> TRUE, statusCode |-> o.statusCode, error |-> ""]
  ELSE IF o.kind = "error"
  THEN [rejected |-> FALSE, success |-> FALSE, statusCode |-> 0, error |-> o.code]
  ELSE [rejected |-> FALSE, success |-> FALSE, statusCode |-> 0, error |-> "ETIMEDOUT"]

\* testOllamaConnection (main.js 52-79): the value the promise resolves with; the
\* promise is never rejected.
TestOllamaConnection(o) ==
  IF o.kind = "response"
  THEN [rejected |-> FALSE, success |-> (o.statusCode = 200),
        statusCode |-> o.statusCode, error |-> ""]
  ELSE IF o.kind = "error"
  THEN [rejected |-> FALSE, success |-> FALSE, statusCode |-> 0, error |-> o.code]
  ELSE [rejected |-> FALSE, success |-> FALSE, statusCode |-> 0, error |-> "ETIMEDOUT"]

\* Contents of message.content in a 2xx chat response: missing, blank, bare SQL,
\* SQL between backticks, SQL on two lines.
ChatContents ==
  { <<>>, <<" ">>, <<"s">>, <<Backtick, "s", Backtick>>, <<"s", NL, "t">> }

\* What has arrived of the content of a response when the timeout expires.
PartialBodies == { <<>>, <<"s">> }

\* What the network does with a POST /api/chat (makeOllamaRequest): an 'error'
\* event with a code, the 60 s 'timeout' event (with the part of a response that
\* has arrived; req.destroy() may then raise an 'error' event of its own:
\* hangUp), a non-2xx status, a 2xx status with a body
\* that is no JSON, a 2xx status with a JSON body.
ChatOutcomes ==
  { [kind |-> "error", code |-> c, hangUp |-> FALSE, content |-> <<>>] :
      c \in {"ECONNREFUSED", "ETIMEDOUT", "ENOTFOUND", "ECONNRESET"} }
  \cup { [kind |-> "timeout", code |-> "", hangUp |-> h, content |-> c] :
           h \in BOOLEAN, c \in PartialBodies }
  \cup { [kind |-> "status", code |-> "500", hangUp |-> FALSE, content |-> <<>>],
         [kind |-> "badjson", code |-> "", hangUp |-> FALSE, content |-> <<>>] }
  \cup { [kind |-> "json", code |-> "", hangUp |-> FALSE, content |-> c] : c \in ChatContents }

\* The error messages of makeOllamaRequest (main.js 813-851).
ErrorMessage(o, host, port) ==
  IF o.kind = "error"
  THEN IF o.code = "ECONNREFUSED" THEN "Connection refused to " \o host \o ":" \o port
       ELSE IF o.code = "ETIMEDOUT" THEN "Connection timeout to " \o host \o ":" \o port
       ELSE IF o.code = "ENOTFOUND" THEN "Host not found: " \o host
       ELSE "Connection error (" \o o.code \o "): socket hang up"
  ELSE IF o.kind = "timeout" THEN "OLLAMA_TIMEOUT"
  ELSE IF o.kind = "status" THEN "Ollama API error: " \o o.code
  ELSE IF o.kind = "badjson" THEN "Failed to parse Ollama response: Unexpected token"
  ELSE "Failed to parse Ollama response: Empty response from Ollama"

\* The hosts and ports a chat request can go to.
ChatHosts == { "localhost", "127.0.0.1", "ollama.lan" }
ChatPorts == { "11434", "11435" }

\* error.message.includes('Connection refused') (main.js 904)
IncludesConnectionRefused(message) ==
  message \in { "Connection refused to " \o h \o ":" \o q : h \in ChatHosts, q \in ChatPorts }

\* One record of llm-prompt-log.txt (appendToLLMLog, main.js 645-673): the
\* prompt, then ERROR: with the error when one is given, RESPONSE: otherwise.
LogRecord(prompt, response, error) ==
  [prompt |-> prompt, response |-> IF error = "" THEN response ELSE "", error |-> error]

\* A request whose 'timeout' handler rejects without writing to the log.
MakeOllamaRequestSilentTimeout(host, port, promptForLog, o) ==
  IF o.kind = "json" /\ Trim(o.content) # <<>>
  THEN [ok |-> TRUE, value |-> CleanSql(Trim(o.content)), message |-> "",
        logs |-> <<LogRecord(promptForLog, "data", "")>>]
  ELSE IF o.kind = "timeout"
  THEN [ok |-> FALSE, value |-> <<>>, message |-> ErrorMessage(o, host, port), logs |-> <<>>]
  ELSE [ok |-> FALSE, value |-> <<>>, message |-> ErrorMessage(o, host, port),
        logs |-> <<LogRecord(promptForLog, "body", ErrorMessage(o, host, port))>>]

\* A request whose 'error' handler rejects a refused connection without writing
\* to the log.
MakeOllamaRequestUnloggedRefusal(host, port, promptForLog, o) ==
  IF o.kind = "json" /\ Trim(o.content) # <<>>
  THEN [ok |-> TRUE, value |-> CleanSql(Trim(o.content)), message |-> "",
        logs |-> <<LogRecord(promptForLog, "data", "")>>]
  ELSE IF o.kind = "timeout"
  THEN [ok |-> FALSE, value |-> <<>>, message |-> ErrorMessage(o, host, port),
        logs |-> <<LogRecord(promptForLog, "", "Request timeout - model may be processing slowly")>>]
  ELSE IF o.kind = "error" /\ o.code = "ECONNREFUSED"
  THEN [ok |-> FALSE, value |-> <<>>, message |-> ErrorMessage(o, host, port), logs |-> <<>>]
  ELSE [ok |-> FALSE, value |-> <<>>, message |-> ErrorMessage(o, host, port),
        logs |-> <<LogRecord(promptForLog, "body", ErrorMessage(o, host, port))>>]

\* A request that, when the timeout expires, resolves with what has arrived.
MakeOllamaRequestPartialOnTimeout(host, port, promptForLog, o) ==
  IF o.kind = "timeout" /\ o.content # <<>>
  THEN [ok |-> TRUE, value |-> o.content, message |-> "",
        logs |-> <<LogRecord(promptForLog, "", "Request timeout - model may be processing slowly")>>]
  ELSE
    IF o.kind = "json" /\ Trim(o.content) # <<>>
    THEN [ok |-> TRUE, value |-> CleanSql(Trim(o.content)), message |-> "",
          logs |-> <<LogRecord(promptForLog, "data", "")>>]
    ELSE IF o.kind = "timeout"
    THEN [ok |-> FALSE, value |-> <<>>, message |-> ErrorMessage(o, host, port),
          logs |-> <<LogRecord(promptForLog, "", "Request timeout - model may be processing slowly")>>
                   \o IF o.hangUp
                      THEN <<LogRecord(promptForLog, "",
                                       "Connection error (ECONNRESET): socket hang up")>>
                      ELSE <<>>]
    ELSE [ok |-> FALSE, value |-> <<>>, message |-> ErrorMessage(o, host, port),
          logs |-> <<LogRecord(promptForLog, "body", ErrorMessage(o, host, port))>>]

\* makeOllamaRequest (main.js 752-856): how the promise settles (ok: resolved with
\* value, otherwise rejected with message) and the records it appends to the log.
MakeOllamaRequest(host, port, promptForLog, o) ==
  IF o.kind = "json" /\ Trim(o.content) # <<>>
  THEN [ok |-> TRUE, value |-> CleanSql(Trim(o.content)), message |-> "",
        logs |-> <<LogRecord(promptForLog, "data", "")>>]
  ELSE IF o.kind = "timeout"
  THEN [ok |-> FALSE, value |-> <<>>, message |-> ErrorMessage(o, host, port),
        logs |-> <<LogRecord(promptForLog, "", "Request timeout - model may be processing slowly")>>
                 \o IF o.hangUp
                    THEN <<LogRecord(promptForLog, "",
                                     "Connection error (ECONNRESET): socket hang up")>>
                    ELSE <<>>]
  ELSE [ok |-> FALSE, value |-> <<>>, message |-> ErrorMessage(o, host, port),
        logs |-> <<LogRecord(promptForLog, "body", ErrorMessage(o, host, port))>>]

\* JSON.stringify(connectionTest) (main.js 922)
ConnectionTestJson(t) ==
  IF t.error # "" THEN "{success:false,error:" \o t.error \o "}"
  ELSE IF t.success THEN "{success:true,statusCode:200}"
  ELSE "{success:false,statusCode:" \o ToString(t.statusCode) \o "}"

\* A fallback decision that looks at the host in use only, not at OLLAMA_HOST.
TranslateTriesFallbackOnLocalhost(e, message) ==
  /\ OllamaHost(e) = "localhost"
  /\ IncludesConnectionRefused(message)

\* A fallback decision that retries on 127.0.0.1 after any failure of localhost.
TranslateTriesFallbackOnAnyError(e, message) ==
  /\ ~Truthy(e.OLLAMA_HOST)
  /\ OllamaHost(e) = "localhost"

\* main.js 904: whether translate-to-sql goes on to 127.0.0.1.
TranslateTriesFallback(e, message) ==
  /\ ~Truthy(e.OLLAMA_HOST)
  /\ OllamaHost(e) = "localhost"
  /\ IncludesConnectionRefused(message)

\* main.js 628: whether test-ollama-connection goes on to 127.0.0.1.
TestTriesFallback(e, result) ==
  /\ ~result.success
  /\ ~Truthy(e.OLLAMA_HOST)
  /\ OllamaHost(e) = "localhost"

\* main.js 167-173: whether the startup check goes on to 127.0.0.1.
StartupTriesFallback(e) ==
  /\ ~Truthy(e.OLLAMA_HOST) /\ ~Truthy(e.OLLAMA_PORT)
  /\ OllamaHost(e) = "localhost"

(***************************************************************************)
(* Bounds and input sets                                                   *)
(***************************************************************************)
\* Number of tokens in a model response.
MaxTokens == 5
\* Number of lines in the commands.txt the handlers start on.
MaxFileLines == 3
\* Number of insert-sql-into-commands-file calls.
MaxInserts == 2
\* A translate-to-sql request is taken while the log holds fewer records than this.
MaxLogRecords == 1
\* Number of outcomes handed to handleCommandResult.
MaxRuns == 2
\* Number of tokens in the body of a fenced model response.
MaxBodyTokens == 2
\* Number of phrases and fillers in a text handed to translateSimplePattern.
MaxPhraseTokens == 3
\* Number of tokens after the word where in such a text.
MaxTailTokens == 4
\* Number of lines in the commands.txt the runner starts on.
MaxRunFileLines == 2

\* Pieces a model response is put together from.
ResponseTokens ==
  { Fence, <<Backtick>>, <<" ">>, <<NL>>, <<"a">>, <<"s", "q", "l">> }

RECURSIVE Concat(_)
Concat(ss) == IF Len(ss) = 0 THEN <<>> ELSE ss[1] \o Concat(Tail(ss))

SeqsUpTo(S, n) == UNION { [1..k -> S] : k \in 0..n }

RawResponses == { Concat(ts) : ts \in SeqsUpTo(ResponseTokens, MaxTokens) }

\* A model response in a markdown code block: the opening fence, a tag, a
\* newline, the body, a newline, the closing fence.
FencedForm(tag, body) == Fence \o tag \o <<NL>> \o body \o <<NL>> \o Fence

\* The tag after the opening fence: none, sql, SQL.
FenceTags == { <<>>, <<"s", "q", "l">>, <<"S", "Q", "L">> }

\* Bodies without a backtick.
BodyTokens == { <<" ">>, <<NL>>, <<"a">>, <<"s", "q", "l">> }
FenceBodies == { Concat(ts) : ts \in SeqsUpTo(BodyTokens, MaxBodyTokens) }

FencedResponses == { FencedForm(tag, body) : tag \in FenceTags, body \in FenceBodies }

\* Lines a commands.txt is put together from: a command padded with blanks, a
\* SQL line, an unclosed bracket line and a comment.
CacheLines ==
  { <<" ", "c", "a", " ">>, <<"[", "s", "]">>, <<"[", "t">>, <<"#", "c", "a">> }

CacheFiles ==
  {NoFile} \cup { FileOf(JoinLines(ls)) : ls \in SeqsUpTo(CacheLines, MaxFileLines) }

CommandTexts ==
  { <<"c", "a">>, <<"c", "b">>, <<"[", "s", "]">>, <<"#", "c", "a">> }

\* SQL handed to insert-sql-into-commands-file: one line, one line with square
\* brackets, two lines.
SqlInputs ==
  { <<"s">>, <<"[", "u", "]">>, <<"s", NL, "t">> }

\* Environments: OLLAMA_HOST absent, empty, the literal localhost, 127.0.0.1 or
\* another host; OLLAMA_PORT absent or set.
EnvHosts == { Unset, SetTo(""), SetTo("localhost"), SetTo("127.0.0.1"), SetTo("ollama.lan") }
EnvPorts == { Unset, SetTo("11435") }
Environments == [OLLAMA_HOST : EnvHosts, OLLAMA_PORT : EnvPorts]

TableName == <<"t">>

\* The tableSchema argument: an array of columns, or a value that is no array.
TableSchemas == { [isArray |-> TRUE, columns |-> <<"a">>], [isArray |-> FALSE, columns |-> <<>>] }

\* Natural-language texts handed to translate-to-sql.
NaturalTexts ==
  { <<"c","o","u","n","t">>, <<"w","h","e","r","e"," ","a","=","1">> }

(***************************************************************************)
(* Idle values of the main-process state                                   *)
(***************************************************************************)
NoResult == [rejected |-> FALSE, success |-> FALSE, statusCode |-> 0, error |-> ""]
NoStatus == [connected |-> FALSE, host |-> "", port |-> "", error |-> ""]
NoSettle == [threw |-> FALSE, sql |-> <<>>]

\* first: the result of the first probe while the fallback probe is pending.
\* logged: the number of records in the log when the translate-to-sql run began.
StartupInit == [pc |-> "init", first |-> NoResult, status |-> NoStatus]
TestIdle == [pc |-> "idle", first |-> NoResult, host |-> "", result |-> NoResult]
TrIdle ==
  [pc |-> "idle", text |-> <<>>, schema |-> [isArray |-> TRUE, columns |-> <<>>],
   attempts |-> <<>>, message |-> "", result |-> NoSettle, logged |-> 0]

NetIdle ==
  /\ env = [OLLAMA_HOST |-> Unset, OLLAMA_PORT |-> Unset]
  /\ llmLog = [exists |-> FALSE, records |-> <<>>]
  /\ startup = StartupInit
  /\ testConn = TestIdle
  /\ tr = TrIdle

RunIdle ==
  [pc |-> "idle", naturalLanguage |-> <<>>, existingSql |-> Null, sql |-> Null,
   translated |-> FALSE, rejected |-> FALSE]

\* No call of translateSimplePattern is under observation.
PatIdle ==
  pat = [pc |-> "idle", text |-> <<>>, table |-> <<>>,
         schema |-> [isArray |-> TRUE, columns |-> <<>>],
         result |-> [threw |-> FALSE, sql |-> <<>>]]

\* App.svelte 28: let llmStatus = null
NoLlmStatus == [set |-> FALSE, connected |-> FALSE, host |-> ""]

\* The page has not finished loading, the timer of onMount has not fired.
RendererIdle == [loaded |-> FALSE, timer |-> "pending", llmStatus |-> NoLlmStatus]

RunnerIdle ==
  /\ renderer = RendererIdle
  /\ commands = <<>>
  /\ currentCommandIndex = 0
  /\ commandsLoaded = FALSE
  /\ executingCommand = FALSE
  /\ run = RunIdle
  /\ commandResults = <<>>

(***************************************************************************)
(* SpecSan: the response cleaning applied to a model response              *)
(***************************************************************************)
SanIdle == raw = <<>> /\ cleaned = <<>> /\ sanpc = "idle"
NoGet == [made |-> FALSE, n |-> 0, ret |-> Null, before |-> NoFile, after |-> NoFile]

CacheIdle == commandsTxt = NoFile /\ cmdArg = <<>> /\ inserts = <<>> /\ lastGet = NoGet

SanInit ==
  /\ raw \in RawResponses \cup FencedResponses
  /\ cleaned = <<>>
  /\ sanpc = "parsed"
  /\ CacheIdle
  /\ NetIdle
  /\ RunnerIdle
  /\ PatIdle

\* main.js 771-774: no content, or only whitespace: throw, caught at 812, reject.
EmptyResponse ==
  /\ sanpc = "parsed"
  /\ Trim(raw) = <<>>
  /\ sanpc' = "rejected"
  /\ UNCHANGED <<pat, raw, cleaned, cachevars, netvars, runvars>>

\* main.js 775-811: clean and resolve.
CleanResponse ==
  /\ sanpc = "parsed"
  /\ Trim(raw) # <<>>
  /\ cleaned' = CleanSql(Trim(raw))
  /\ sanpc' = "resolved"
  /\ UNCHANGED <<pat, raw, cachevars, netvars, runvars>>

SanNext == EmptyResponse \/ CleanResponse

SpecSan == SanInit /\ [][SanNext]_vars

(***************************************************************************)
(* SpecCache: the two cache handlers called on a commands.txt              *)
(***************************************************************************)
CacheInit ==
  /\ commandsTxt \in CacheFiles
  /\ cmdArg \in CommandTexts
  /\ inserts = <<>>
  /\ lastGet = NoGet
  /\ SanIdle
  /\ NetIdle
  /\ RunnerIdle
  /\ PatIdle

\* ipcMain.handle('get-sql-for-command', commandText); n is the number of inserts
\* made before the call.
CallGetSql ==
  /\ lastGet' = [made |-> TRUE, n |-> Len(inserts),
                 ret |-> GetSqlForCommand(commandsTxt, cmdArg),
                 before |-> commandsTxt, after |-> commandsTxt]
  /\ UNCHANGED <<pat, commandsTxt, cmdArg, inserts, sanvars, netvars, runvars>>

\* ipcMain.handle('insert-sql-into-commands-file', commandText, sql)
CallInsertSql ==
  /\ Len(inserts) < MaxInserts
  /\ \E sql \in SqlInputs :
       LET r == InsertSqlIntoCommandsFile(commandsTxt, cmdArg, sql)
       IN  /\ commandsTxt' = r.file
           /\ inserts' = Append(inserts,
                [cmd |-> cmdArg, sql |-> sql, threw |-> r.threw, before |-> commandsTxt,
                 after |-> r.file])
  /\ UNCHANGED <<pat, cmdArg, lastGet, sanvars, netvars, runvars>>

CacheNext == CallGetSql \/ CallInsertSql

SpecCache == CacheInit /\ [][CacheNext]_vars

(***************************************************************************)
(* Spec: the main process, its startup check and its two Ollama handlers   *)
(***************************************************************************)
OldRecord == LogRecord(<<"o","l","d">>, "data", "")

Init ==
  /\ env \in Environments
  /\ llmLog \in { [exists |-> FALSE, records |-> <<>>],
                  [exists |-> TRUE, records |-> <<OldRecord>>] }
  /\ startup = StartupInit
  /\ testConn = TestIdle
  /\ tr = TrIdle
  /\ SanIdle
  /\ CacheIdle
  /\ RunnerIdle
  /\ PatIdle

\* A log written with writeFileSync: the new records replace the old content.
AppendToLLMLogOverwriting(log, records) == [exists |-> TRUE, records |-> records]

\* appendToLLMLog, once per record: fs.appendFileSync creates the file.
AppendToLLMLog(log, records) == [exists |-> TRUE, records |-> log.records \o records]

\* llmStatus of the startup check (main.js 134-250).
Status(connected, host, e, error) ==
  [connected |-> connected, host |-> host, port |-> OllamaPort(e), error |-> error]

\* app.whenReady (main.js 101-127): clearLogFiles empties an existing log, the
\* window is created, and the first probe goes to the configured host.
StartupBegin ==
  /\ startup.pc = "init"
  /\ llmLog' = [llmLog EXCEPT !.records = <<>>]
  /\ startup' = [startup EXCEPT !.pc = "probePrimary"]
  /\ UNCHANGED <<pat, env, testConn, tr, sanvars, cachevars, runvars>>

\* main.js 127-175 and 232-250: the first probe ends.
StartupProbePrimary ==
  /\ startup.pc = "probePrimary"
  /\ \E o \in ProbeOutcomes :
       LET testResult == TestOllamaConnection(o)
       IN  startup' =
             IF testResult.success
             THEN [startup EXCEPT !.pc = "messagePrimary"]
             ELSE IF StartupTriesFallback(env)
             THEN [startup EXCEPT !.pc = "probeFallback", !.first = testResult]
             ELSE [startup EXCEPT
                     !.pc = "ready",
                     !.status = Status(FALSE, OllamaHost(env), env, testResult.error)]
  /\ UNCHANGED <<pat, env, llmLog, testConn, tr, sanvars, cachevars, runvars>>

\* main.js 132-161: testLLMWithMessage on the configured host resolves or rejects.
StartupMessagePrimary ==
  /\ startup.pc = "messagePrimary"
  /\ \E ok \in BOOLEAN :
       startup' = [startup EXCEPT
                     !.pc = "ready",
                     !.status = Status(ok, OllamaHost(env), env,
                                       IF ok THEN "" ELSE "message test failed")]
  /\ UNCHANGED <<pat, env, llmLog, testConn, tr, sanvars, cachevars, runvars>>

\* main.js 177-231: the probe of 127.0.0.1 ends.
StartupProbeFallback ==
  /\ startup.pc = "probeFallback"
  /\ \E o \in ProbeOutcomes :
       LET testFallback == TestOllamaConnection(o)
       IN  startup' =
             IF testFallback.success
             THEN [startup EXCEPT !.pc = "messageFallback", !.first = NoResult]
             ELSE [startup EXCEPT
                     !.pc = "ready", !.first = NoResult,
                     !.status = Status(FALSE, OllamaHost(env), env,
                                       IF startup.first.error # "" THEN startup.first.error
                                       ELSE testFallback.error)]
  /\ UNCHANGED <<pat, env, llmLog, testConn, tr, sanvars, cachevars, runvars>>

\* main.js 182-212: testLLMWithMessage on 127.0.0.1 resolves or rejects.
StartupMessageFallback ==
  /\ startup.pc = "messageFallback"
  /\ \E ok \in BOOLEAN :
       startup' = [startup EXCEPT
                     !.pc = "ready",
                     !.status = Status(ok, "127.0.0.1", env,
                                       IF ok THEN "" ELSE "message test failed")]
  /\ UNCHANGED <<pat, env, llmLog, testConn, tr, sanvars, cachevars, runvars>>

\* ipcMain.handle('test-ollama-connection') is invoked (main.js 616-623); the
\* handlers are registered and the window exists once app.whenReady has run.
TestBegin ==
  /\ startup.pc # "init"
  /\ testConn.pc \in {"idle", "done"}
  /\ testConn' = [TestIdle EXCEPT !.pc = "probePrimary"]
  /\ UNCHANGED <<pat, env, llmLog, startup, tr, sanvars, cachevars, runvars>>

\* main.js 623-641: the probe of the configured host ends.
TestProbePrimary ==
  /\ testConn.pc = "probePrimary"
  /\ \E o \in ProbeOutcomes :
       LET result == TestOllamaConnection(o)
       IN  testConn' =
             IF TestTriesFallback(env, result)
             THEN [testConn EXCEPT !.pc = "probeFallback", !.first = result]
             ELSE [testConn EXCEPT !.pc = "done", !.host = OllamaHost(env),
                                   !.result = result]
  /\ UNCHANGED <<pat, env, llmLog, startup, tr, sanvars, cachevars, runvars>>

\* main.js 630-641: the probe of 127.0.0.1 ends.
TestProbeFallback ==
  /\ testConn.pc = "probeFallback"
  /\ \E o \in ProbeOutcomes :
       LET result127 == TestOllamaConnection(o)
       IN  testConn' =
             IF result127.success
             THEN [testConn EXCEPT !.pc = "done", !.first = NoResult,
                                   !.host = "127.0.0.1", !.result = result127]
             ELSE [testConn EXCEPT !.pc = "done", !.first = NoResult,
                                   !.host = OllamaHost(env), !.result = testConn.first]
  /\ UNCHANGED <<pat, env, llmLog, startup, tr, sanvars, cachevars, runvars>>

\* A handler that goes on using the host the startup check found working.
TranslateHostPersisted(e, status) ==
  IF status.connected THEN status.host ELSE OllamaHost(e)

\* main.js 860: the host of the first chat request of translate-to-sql, read from
\* the environment at every call; the status of the startup check has no part.
TranslateHost(e, status) == OllamaHost(e)

\* One chat request of a translate-to-sql run, as the run remembers it.
Attempt(host, port, fallback, r) ==
  [host |-> host, port |-> port, fallback |-> fallback, ok |-> r.ok, message |-> r.message]

\* ipcMain.handle('translate-to-sql') is invoked (main.js 858-897): the prompt is
\* built and the chat request goes to the configured host.
TranslateBegin(naturalLanguage, tableSchema) ==
  /\ startup.pc # "init"
  /\ tr.pc \in {"idle", "done"}
  /\ Len(llmLog.records) < MaxLogRecords
  /\ tr' = [TrIdle EXCEPT !.pc = "chatPrimary", !.text = naturalLanguage,
                          !.schema = tableSchema, !.logged = Len(llmLog.records)]

\* The renderer asks for a translation.
TranslateRequest ==
  /\ \E text \in NaturalTexts, schema \in TableSchemas : TranslateBegin(text, schema)
  /\ UNCHANGED <<pat, env, llmLog, startup, testConn, sanvars, cachevars, runvars>>

\* main.js 897-917: the chat request to the configured host settles.
TranslateChatPrimary ==
  /\ tr.pc = "chatPrimary"
  /\ \E o \in ChatOutcomes :
       LET ollamaHost == TranslateHost(env, startup.status)
           r == MakeOllamaRequest(ollamaHost, OllamaPort(env), tr.text, o)
           a == Attempt(ollamaHost, OllamaPort(env), FALSE, r)
       IN  /\ llmLog' = AppendToLLMLog(llmLog, r.logs)
           /\ tr' =
                IF r.ok
                THEN [tr EXCEPT !.pc = "done", !.attempts = Append(@, a),
                                !.result = [threw |-> FALSE, sql |-> r.value]]
                ELSE IF TranslateTriesFallback(env, r.message)
                THEN [tr EXCEPT !.pc = "chatFallback", !.attempts = Append(@, a),
                                !.message = r.message]
                ELSE [tr EXCEPT !.pc = "probe", !.attempts = Append(@, a),
                                !.message = r.message]
  /\ UNCHANGED <<pat, env, startup, testConn, sanvars, cachevars, runvars>>

\* main.js 906-917: the chat request to 127.0.0.1 settles.
TranslateChatFallback ==
  /\ tr.pc = "chatFallback"
  /\ \E o \in ChatOutcomes :
       LET r == MakeOllamaRequest("127.0.0.1", OllamaPort(env), tr.text, o)
           a == Attempt("127.0.0.1", OllamaPort(env), TRUE, r)
       IN  /\ llmLog' = AppendToLLMLog(llmLog, r.logs)
           /\ tr' =
                IF r.ok
                THEN [tr EXCEPT !.pc = "done", !.attempts = Append(@, a),
                                !.result = [threw |-> FALSE, sql |-> r.value]]
                ELSE [tr EXCEPT !.pc = "probe", !.attempts = Append(@, a)]
  /\ UNCHANGED <<pat, env, startup, testConn, sanvars, cachevars, runvars>>

\* main.js 917-923: the diagnostic probe of the configured host ends, the
\* fallback notice is logged and translateSimplePattern gives the result.
TranslateProbe ==
  /\ tr.pc = "probe"
  /\ \E o \in ProbeOutcomes :
       LET connectionTest == TestOllamaConnection(o)
       IN  IF connectionTest.rejected
           THEN /\ tr' = [tr EXCEPT !.pc = "done", !.result = [threw |-> TRUE, sql |-> <<>>]]
                /\ UNCHANGED llmLog
           ELSE /\ llmLog' = AppendToLLMLog(llmLog,
                               <<LogRecord(tr.text, "FALLBACK_TO_PATTERN_MATCHING",
                                           tr.message \o ". Connection test: "
                                             \o ConnectionTestJson(connectionTest))>>)
                /\ tr' = [tr EXCEPT !.pc = "done",
                            !.result = TranslateSimplePattern(tr.text, TableName, tr.schema)]
  /\ UNCHANGED <<pat, env, startup, testConn, sanvars, cachevars, runvars>>

Next ==
  \/ StartupBegin
  \/ StartupProbePrimary
  \/ StartupMessagePrimary
  \/ StartupProbeFallback
  \/ StartupMessageFallback
  \/ TestBegin
  \/ TestProbePrimary
  \/ TestProbeFallback
  \/ TranslateRequest
  \/ TranslateChatPrimary
  \/ TranslateChatFallback
  \/ TranslateProbe

Spec == Init /\ [][Next]_vars

\* Every HTTP request ends: with a response, a transport error or the expiry of
\* its timeout (60 s for a chat request, 5 s for a probe), so a step that waits
\* for one is eventually taken.
\* The translate-to-sql handler alone, after the startup check has ended.
LiveInit ==
  /\ env \in Environments
  /\ llmLog = [exists |-> FALSE, records |-> <<>>]
  /\ startup = [StartupInit EXCEPT !.pc = "ready"]
  /\ testConn = TestIdle
  /\ tr = TrIdle
  /\ RunnerIdle /\ PatIdle /\ SanIdle /\ CacheIdle

\* The texts of the requests: termination does not depend on the pattern a text
\* falls under, so one text of each of the first two patterns and one of none.
LiveTexts ==
  { <<"c","o","u","n","t">>, <<"g","e","t"," ","a","l","l">>, <<"s","u","m">> }

\* The renderer asks for a translation.
LiveRequest ==
  /\ \E text \in LiveTexts, schema \in TableSchemas : TranslateBegin(text, schema)
  /\ UNCHANGED <<pat, env, llmLog, startup, testConn, sanvars, cachevars, runvars>>

LiveNext ==
  \/ LiveRequest
  \/ TranslateChatPrimary
  \/ TranslateChatFallback
  \/ TranslateProbe

SpecLive ==
  /\ LiveInit /\ [][LiveNext]_vars
  /\ WF_vars(TranslateChatPrimary)
  /\ WF_vars(TranslateChatFallback)
  /\ WF_vars(TranslateProbe)

(***************************************************************************)
(* SpecStatus: the startup check, the page load and the status the         *)
(* renderer shows                                                          *)
(***************************************************************************)
\* The llmStatus the renderer keeps of what the main process sends
\* (main.js 273, preload.cjs 5-8, App.svelte 33-36).
SentStatus(status) ==
  [set |-> TRUE, connected |-> status.connected, host |-> status.host]

\* The llmStatus the renderer builds from the value of test-ollama-connection
\* (App.svelte 44-53): connected is the success of the probe.
ProbedStatus(t) ==
  [set |-> TRUE, connected |-> t.result.success,
   host |-> IF t.host # "" THEN t.host ELSE "localhost"]

\* webContents emits 'did-finish-load' (the page was loading since createWindow,
\* main.js 105) and App.svelte is mounted. The listener of main.js 272 is
\* registered with once() in the step that ends the startup check: when it is
\* there it sends llmStatus, and the renderer keeps it; when it is not there yet,
\* nobody hears the event.
PageFinishesLoad ==
  /\ startup.pc # "init"
  /\ ~renderer.loaded
  /\ renderer' =
       IF startup.pc = "ready"
       THEN [renderer EXCEPT !.loaded = TRUE, !.llmStatus = SentStatus(startup.status)]
       ELSE [renderer EXCEPT !.loaded = TRUE]
  /\ UNCHANGED <<pat, commands, currentCommandIndex, commandsLoaded, executingCommand, run,
                 commandResults, sanvars, cachevars, netvars>>

\* The timer of onMount fires after one second (App.svelte 40-42): with no
\* llmStatus yet, test-ollama-connection is invoked.
StatusTimer ==
  /\ renderer.loaded
  /\ renderer.timer = "pending"
  /\ IF renderer.llmStatus.set
     THEN /\ renderer' = [renderer EXCEPT !.timer = "done"]
          /\ UNCHANGED testConn
     ELSE /\ renderer' = [renderer EXCEPT !.timer = "probing"]
          /\ testConn' = [TestIdle EXCEPT !.pc = "probePrimary"]
  /\ UNCHANGED <<pat, commands, currentCommandIndex, commandsLoaded, executingCommand, run,
                 commandResults, sanvars, cachevars, env, llmLog, startup, tr>>

\* test-ollama-connection has answered (App.svelte 43-54): llmStatus is built
\* from the result of the probe.
StatusFromProbe ==
  /\ renderer.timer = "probing"
  /\ testConn.pc = "done"
  /\ renderer' = [renderer EXCEPT !.timer = "done", !.llmStatus = ProbedStatus(testConn)]
  /\ UNCHANGED <<pat, commands, currentCommandIndex, commandsLoaded, executingCommand, run,
                 commandResults, sanvars, cachevars, netvars>>

StatusNext ==
  \/ StartupBegin
  \/ StartupProbePrimary
  \/ StartupMessagePrimary
  \/ StartupProbeFallback
  \/ StartupMessageFallback
  \/ PageFinishesLoad
  \/ StatusTimer
  \/ TestProbePrimary
  \/ TestProbeFallback
  \/ StatusFromProbe

SpecStatus == Init /\ [][StatusNext]_vars

(***************************************************************************)
(* SpecRun: the command runner of App.svelte over commands.txt and the     *)
(* translate-to-sql handler                                                *)
(***************************************************************************)
\* Lines of the commands files the runner is started on: two commands, a padded
\* SQL line and a blank SQL line.
RunLines == { <<"c","a">>, <<"c","b">>, <<"["," ","s"," ","]">>, <<"["," ","]">> }

RunFiles ==
  {NoFile} \cup { FileOf(JoinLines(ls)) : ls \in SeqsUpTo(RunLines, MaxRunFileLines) \ {<<>>} }

\* The runner is observed with the default configuration and with an explicit host.
RunEnvironments ==
  { [OLLAMA_HOST |-> Unset, OLLAMA_PORT |-> Unset],
    [OLLAMA_HOST |-> SetTo("ollama.lan"), OLLAMA_PORT |-> Unset] }

\* dbManager.getTableSchema(currentTable) of a table with one column.
CurrentTableSchema == [isArray |-> TRUE, columns |-> <<"a">>]

RECURSIVE FilterCommands(_)
\* App.svelte 364-366: trimmed lines that are not empty, comments or SQL lines.
FilterCommands(lines) ==
  IF lines = <<>> THEN <<>>
  ELSE LET line == Trim(Head(lines))
           rest == FilterCommands(Tail(lines))
       IN  IF Len(line) > 0 /\ ~StartsWith(line, <<"#">>) /\ ~StartsWith(line, <<"[">>)
           THEN <<line>> \o rest
           ELSE rest

\* loadCommands (App.svelte 354-388): the new values of commands,
\* currentCommandIndex and commandsLoaded; reading a missing file throws.
LoadCommands(file, index) ==
  IF ~file.exists
  THEN [commands |-> <<>>, index |-> index, loaded |-> FALSE]
  ELSE LET newCommands == FilterCommands(SplitLines(file.content))
       IN  [commands |-> newCommands,
            index |-> IF index >= Len(newCommands) THEN Len(newCommands) ELSE index,
            loaded |-> TRUE]

\* A runner that takes the SQL of commands.txt only when it has no padding.
UsesExistingSqlUnpadded(existingSql) ==
  existingSql # Null /\ existingSql.val # <<>> /\ Trim(existingSql.val) = existingSql.val

\* A runner that never takes the SQL of commands.txt.
UsesExistingSqlNever(existingSql) == FALSE

\* App.svelte 429: existingSql && existingSql.trim() !== ''
UsesExistingSql(existingSql) ==
  existingSql # Null /\ Trim(existingSql.val) # <<>>

\* A runner that skips the command after the one it has executed.
AdvanceIndexSkipping(index) == index + 2

\* App.svelte 533: currentCommandIndex = currentCommandIndex + 1
AdvanceIndex(index) == index + 1

\* A runner that goes on to store the SQL after an execution that threw.
ExecutionStopsNever(failed) == FALSE

\* App.svelte 481-500: the catch of the execution ends the run (return false).
ExecutionStops(failed) == failed

\* One entry handed to handleCommandResult.
CommandResult(naturalLanguage, sql, failed) ==
  [naturalLanguage |-> naturalLanguage, sql |-> sql, failed |-> failed]

RunInit ==
  /\ commandsTxt \in RunFiles
  /\ env \in RunEnvironments
  /\ llmLog = [exists |-> FALSE, records |-> <<>>]
  /\ startup = [StartupInit EXCEPT !.pc = "ready"]
  /\ testConn = TestIdle
  /\ tr = TrIdle
  /\ RunnerIdle
  /\ PatIdle
  /\ cmdArg = <<>>
  /\ inserts = <<>>
  /\ lastGet = NoGet
  /\ SanIdle

\* The reactive loadCommands of App.svelte 394-396, when the viewer is shown.
LoadCommandsStep ==
  /\ ~commandsLoaded
  /\ LET l == LoadCommands(commandsTxt, currentCommandIndex)
     IN  /\ commands' = l.commands
         /\ currentCommandIndex' = l.index
         /\ commandsLoaded' = l.loaded
  /\ UNCHANGED <<pat, renderer, executingCommand, run, commandResults, sanvars, cachevars, netvars>>

\* A guard that lets a call through while another one is in progress.
PassesGuardWhileExecuting(executing, index, cmds) == index < Len(cmds)

\* App.svelte 406: executingCommand || !nextCommand returns false; nextCommand is
\* commands[currentCommandIndex], or null past the end (App.svelte 391).
PassesGuard(executing, index, cmds) == ~executing /\ index < Len(cmds)

\* A call of handleExecuteNextCommand, by a click or by a loop of
\* executeAllCommands, that the guard turns away (App.svelte 406-408): it returns
\* false; run.rejected tells that it happened since the run began.
RunRejected ==
  /\ ~PassesGuard(executingCommand, currentCommandIndex, commands)
  /\ ~run.rejected
  /\ run' = [run EXCEPT !.rejected = TRUE]
  /\ UNCHANGED <<pat, renderer, commands, currentCommandIndex, commandsLoaded, executingCommand,
                 commandResults, sanvars, cachevars, netvars>>

\* handleExecuteNextCommand up to its first await (App.svelte 400-428): the guard,
\* the schema, and the call of getSqlForCommand.
RunStart ==
  /\ PassesGuard(executingCommand, currentCommandIndex, commands)
  /\ Len(commandResults) < MaxRuns
  /\ executingCommand' = TRUE
  /\ run' = [RunIdle EXCEPT !.pc = "lookup",
                            !.naturalLanguage = commands[currentCommandIndex + 1]]
  /\ UNCHANGED <<pat, renderer, commands, currentCommandIndex, commandsLoaded, commandResults,
                 sanvars, cachevars, netvars>>

\* App.svelte 428-441: getSqlForCommand has answered; the cached SQL is taken, or
\* translateToSQL is called.
RunLookup ==
  /\ run.pc = "lookup"
  /\ LET existingSql == GetSqlForCommand(commandsTxt, run.naturalLanguage)
     IN  IF UsesExistingSql(existingSql)
         THEN /\ run' = [run EXCEPT !.pc = "execute", !.existingSql = existingSql,
                                    !.sql = Some(Trim(existingSql.val))]
              /\ UNCHANGED tr
         ELSE /\ run' = [run EXCEPT !.pc = "translate", !.existingSql = existingSql,
                                    !.translated = TRUE]
              /\ TranslateBegin(run.naturalLanguage, CurrentTableSchema)
  /\ UNCHANGED <<pat, renderer, commands, currentCommandIndex, commandsLoaded, executingCommand,
                 commandResults, env, llmLog, startup, testConn, sanvars, cachevars>>

\* App.svelte 441-467: translateToSQL has settled; a thrown error or a blank SQL
\* ends the run.
RunTranslated ==
  /\ run.pc = "translate"
  /\ tr.pc = "done"
  /\ IF tr.result.threw \/ Trim(tr.result.sql) = <<>>
     THEN /\ commandResults' =
               Append(commandResults, CommandResult(run.naturalLanguage, Null, TRUE))
          /\ executingCommand' = FALSE
          /\ run' = RunIdle
     ELSE /\ run' = [run EXCEPT !.pc = "execute", !.sql = Some(tr.result.sql)]
          /\ UNCHANGED <<commandResults, executingCommand>>
  /\ UNCHANGED <<pat, renderer, commands, currentCommandIndex, commandsLoaded, sanvars, cachevars,
                 netvars>>

\* App.svelte 469-512: dbManager.executeSQL(sql) returns or throws, and the
\* outcome is handed to handleCommandResult.
RunExecute ==
  /\ run.pc = "execute"
  /\ \E failed \in BOOLEAN :
       /\ commandResults' =
            Append(commandResults, CommandResult(run.naturalLanguage, run.sql, failed))
       /\ IF ExecutionStops(failed)
          THEN /\ executingCommand' = FALSE
               /\ run' = RunIdle
          ELSE /\ run' = [run EXCEPT !.pc = "store"]
               /\ UNCHANGED executingCommand
  /\ UNCHANGED <<pat, renderer, commands, currentCommandIndex, commandsLoaded, sanvars, cachevars,
                 netvars>>

\* App.svelte 514-542: the SQL is inserted unless one is there, the commands are
\* reloaded (not when the insertion threw), the index moves on, the run ends.
RunStore ==
  /\ run.pc = "store"
  /\ LET existingSql == GetSqlForCommand(commandsTxt, run.naturalLanguage)
         r == IF UsesExistingSql(existingSql)
              THEN [threw |-> FALSE, file |-> commandsTxt]
              ELSE InsertSqlIntoCommandsFile(commandsTxt, run.naturalLanguage, run.sql.val)
         l == IF r.threw
              THEN [commands |-> commands, index |-> currentCommandIndex,
                    loaded |-> commandsLoaded]
              ELSE LoadCommands(r.file, currentCommandIndex)
     IN  /\ commandsTxt' = r.file
         /\ inserts' =
              IF UsesExistingSql(existingSql) THEN inserts
              ELSE Append(inserts,
                     [cmd |-> run.naturalLanguage, sql |-> run.sql.val, threw |-> r.threw,
                      before |-> commandsTxt, after |-> r.file])
         /\ commands' = l.commands
         /\ commandsLoaded' = l.loaded
         /\ currentCommandIndex' = AdvanceIndex(l.index)
  /\ executingCommand' = FALSE
  /\ run' = RunIdle
  /\ UNCHANGED <<pat, renderer, commandResults, cmdArg, lastGet, sanvars, netvars>>

RunNext ==
  \/ LoadCommandsStep
  \/ RunStart
  \/ RunLookup
  \/ RunTranslated
  \/ RunExecute
  \/ RunStore
  \/ TranslateChatPrimary
  \/ TranslateChatFallback
  \/ TranslateProbe

SpecRun == RunInit /\ [][RunNext]_vars

(***************************************************************************)
(* SpecGuard: the runner with calls of handleExecuteNextCommand arriving   *)
(* at any moment (clicks, loops of executeAllCommands)                     *)
(***************************************************************************)
\* commands.txt with two commands, and with one command and its SQL.
GuardFiles ==
  { FileOf(JoinLines(<< <<"c","a">>, <<"c","b">> >>)),
    FileOf(JoinLines(<< <<"c","a">>, <<"["," ","s"," ","]">> >>)) }

GuardInit ==
  /\ RunInit
  /\ commandsTxt \in GuardFiles
  /\ env = [OLLAMA_HOST |-> Unset, OLLAMA_PORT |-> Unset]

GuardNext ==
  \/ RunNext
  \/ RunRejected

SpecGuard == GuardInit /\ [][GuardNext]_vars

(***************************************************************************)
(* SpecPat: translateSimplePattern applied to a text, a table name and a   *)
(* schema                                                                  *)
(***************************************************************************)
\* Texts that mix the phrases the function looks for, in both letter cases.
PhraseTokens ==
  { <<"s","h","o","w"," ","a","l","l">>, <<"S","e","l","e","c","t"," ","A","L","L">>,
    <<"g","e","t"," ","a","l","l">>, <<"c","o","u","n","t">>, <<"C","o","u","n","t">>,
    <<"w","h","e","r","e">>, <<" ">>, <<"x">> }

PhraseTexts == { Concat(ts) : ts \in SeqsUpTo(PhraseTokens, MaxPhraseTokens) }

\* Texts with a where clause: where, in either letter case and also inside a
\* longer word, with or without a blank after it, followed by blanks, letters,
\* '=' and quotes.
WhereHeads ==
  { <<"w","h","e","r","e">>, <<"w","h","e","r","e"," ">>,
    <<"a","n","y","W","H","E","R","E"," ">> }
TailTokens == { <<" ">>, <<"a">>, <<"B">>, <<"=">>, <<"'">>, <<"\"">> }
WhereTexts ==
  { h \o Concat(ts) : h \in WhereHeads, ts \in SeqsUpTo(TailTokens, MaxTailTokens) }

PatTables == { <<"t">>, <<"u", "v">> }

\* Schemas as getTableSchema returns them: arrays of columns.
PatSchemas ==
  { [isArray |-> TRUE, columns |-> <<>>], [isArray |-> TRUE, columns |-> <<"a">>],
    [isArray |-> TRUE, columns |-> <<"b", "c">>] }

\* A call under observation.
PatCall(text, table, schema) ==
  [pc |-> "called", text |-> text, table |-> table, schema |-> schema,
   result |-> [threw |-> FALSE, sql |-> <<>>]]

PatInit ==
  /\ \/ \E x \in PhraseTexts, t \in PatTables, sc \in PatSchemas : pat = PatCall(x, t, sc)
     \/ \E x \in WhereTexts : pat = PatCall(x, TableName, CurrentTableSchema)
  /\ SanIdle
  /\ CacheIdle
  /\ NetIdle
  /\ RunnerIdle

\* translateSimplePattern returns (main.js 927-952).
PatReturn ==
  /\ pat.pc = "called"
  /\ pat' = [pat EXCEPT !.pc = "returned",
                        !.result = TranslateSimplePattern(pat.text, pat.table, pat.schema)]
  /\ UNCHANGED <<sanvars, cachevars, netvars, runvars>>

PatNext == PatReturn

SpecPat == PatInit /\ [][PatNext]_vars

(***************************************************************************)
(* Properties of the cache handlers (SpecCache)                            *)
(***************************************************************************)
LinesOf(f) == SplitLines(f.content)

BracketLeading(s) == Len(s) >= 1 /\ s[1] = "["

\* The line, trimmed, starts with '[' and ends with ']'.
Bracketed(line) ==
  LET t == Trim(line) IN Len(t) >= 1 /\ t[1] = "[" /\ t[Len(t)] = "]"

Interior(line) == LET t == Trim(line) IN SubSeq(t, 2, Len(t) - 1)

\* The positions of the first line whose trimmed text equals cmd: empty or one position.
FirstEqual(lines, cmd) ==
  { i \in 1..Len(lines) :
      Trim(lines[i]) = cmd /\ \A j \in 1..(i - 1) : Trim(lines[j]) # cmd }

HasNewline(s) == \E i \in 1..Len(s) : s[i] = NL

\* C6 (as claimed): cache round trip. When commands.txt holds a command line equal
\* to cmd whose first occurrence is not followed by a bracketed line, a call of
\* insert-sql-into-commands-file(cmd, sql) followed by get-sql-for-command(cmd)
\* returns sql, for single-line, bracket-holding and multi-line sql alike.
C6_RoundTrip ==
  (lastGet.made /\ lastGet.n >= 1) =>
    LET r     == inserts[lastGet.n]
        lines == LinesOf(r.before)
    IN  ( /\ r.before.exists
          /\ ~BracketLeading(cmdArg)
          /\ \E i \in FirstEqual(lines, cmdArg) :
               i = Len(lines) \/ ~Bracketed(lines[i + 1]) )
        => (~r.threw /\ lastGet.ret = Some(r.sql))

\* C7 (as claimed): no clobber. A second insert-sql-into-commands-file for the
\* same command is rejected or leaves commands.txt as it is, and the lookup gives
\* afterwards what it gave after the first insert.
C7_NoClobber ==
  Len(inserts) >= 2 =>
    LET k == Len(inserts) - 1
    IN  ~inserts[k].threw =>
          /\ inserts[k + 1].threw \/ inserts[k + 1].after = inserts[k + 1].before
          /\ (lastGet.made /\ lastGet.n = k + 1)
               => lastGet.ret = GetSqlForCommand(inserts[k].after, cmdArg)

\* C7 (amended): the second insert for the same command is not rejected; it puts
\* its line [b] directly after the command line and above the line [a] of the
\* first insert, which stays in the file with every other line; the lookup then
\* returns b when b is a single line, so a is shadowed, not replaced. (Stated of
\* the latest two inserts of the state, which every pair of inserts once is.)
C7_SecondInsertShadows ==
  Len(inserts) >= 2 =>
    LET k      == Len(inserts) - 1
        lines0 == LinesOf(inserts[k].before)
        a      == <<"[">> \o inserts[k].sql \o <<"]">>
        b      == <<"[">> \o inserts[k + 1].sql \o <<"]">>
    IN  ~inserts[k].threw =>
          LET i == CHOOSE x \in FirstEqual(lines0, cmdArg) : TRUE
          IN  /\ ~inserts[k + 1].threw
              /\ inserts[k + 1].after.content =
                   JoinLines(SubSeq(lines0, 1, i) \o <<b, a>> \o SubSeq(lines0, i + 1, Len(lines0)))
              /\ (lastGet.made /\ lastGet.n = k + 1 /\ ~HasNewline(inserts[k + 1].sql))
                   => lastGet.ret = Some(inserts[k + 1].sql)

\* Two inserts of different SQL went through and the lookup was made after them.
C7_Witness ==
  /\ Len(inserts) = 2
  /\ ~inserts[1].threw /\ ~inserts[2].threw
  /\ inserts[1].sql # inserts[2].sql
  /\ lastGet.made /\ lastGet.n = 2 /\ ~lastGet.ret.isNull

\* C8: insert-sql-into-commands-file throws when commands.txt does not exist or
\* holds no line that, trimmed, equals cmd and does not start with '['; the file
\* is then left as it was (no command line is created). (Stated of the latest
\* insert of the state, which every insert once is.)
C8_InsertNotFound ==
  Len(inserts) >= 1 =>
    LET r      == inserts[Len(inserts)]
        lines  == LinesOf(r.before)
        noLine == \A i \in 1..Len(lines) :
                    LET t == Trim(lines[i]) IN t # cmdArg \/ BracketLeading(t)
    IN  (~r.before.exists \/ noLine) => (r.threw /\ r.after = r.before)

\* An insert was refused on an existing commands.txt that lacks the command line.
C8_Witness ==
  \E k \in 1..Len(inserts) :
    inserts[k].threw /\ inserts[k].before.exists /\ inserts[k].after = inserts[k].before

\* What C9 describes: the interior of the line after the first line equal to cmd
\* when that line is bracketed, null otherwise.
LookupByEquality(f, cmd) ==
  IF ~f.exists THEN Null
  ELSE LET lines == LinesOf(f)
           first == FirstEqual(lines, cmd)
       IN  IF \E i \in first : i < Len(lines) /\ Bracketed(lines[i + 1])
           THEN LET i == CHOOSE x \in first : TRUE
                IN  Some(Interior(lines[i + 1]))
           ELSE Null

\* C9 (as claimed): get-sql-for-command(cmd) returns the interior of the line after
\* the first line whose trimmed text equals cmd when that next line is bracketed,
\* null in every other case, and leaves commands.txt as it is.
C9_Lookup ==
  lastGet.made =>
    /\ lastGet.ret = LookupByEquality(lastGet.before, cmdArg)
    /\ lastGet.after = lastGet.before

\* C9 (amended): the same for a cmd that does not start with '['; for a cmd that
\* starts with '[' the lookup returns null whatever the file holds, because a line
\* that starts with '[' is never taken as the command line.
C9_LookupNonBracketed ==
  lastGet.made =>
    /\ lastGet.ret = IF BracketLeading(cmdArg) THEN Null
                     ELSE LookupByEquality(lastGet.before, cmdArg)
    /\ lastGet.after = lastGet.before

\* The first occurrence of the command has no SQL line, a later one has: null.
C9_Witness ==
  /\ lastGet.made /\ lastGet.ret.isNull /\ lastGet.before.exists
  /\ ~BracketLeading(cmdArg)
  /\ LET lines == LinesOf(lastGet.before)
     IN  \E i, j \in 1..Len(lines) :
           /\ i < j /\ j < Len(lines)
           /\ Trim(lines[i]) = cmdArg /\ Trim(lines[j]) = cmdArg
           /\ Bracketed(lines[j + 1])

(***************************************************************************)
(* Properties of the translation pipeline (Spec)                           *)
(***************************************************************************)
\* Every chat request of the current translate-to-sql run has failed.
AllAttemptsFailed ==
  Len(tr.attempts) >= 1 /\ \A i \in 1..Len(tr.attempts) : ~tr.attempts[i].ok

\* The current translate-to-sql run has sent a chat request to 127.0.0.1.
AttemptedFallbackHost ==
  \E i \in 1..Len(tr.attempts) :
    tr.attempts[i].host = "127.0.0.1" /\ tr.attempts[i].port = OllamaPort(env)

\* One of the three places is waiting for, or has sent, a request to 127.0.0.1
\* that follows a failure of the configured host.
FallbackContacted ==
  \/ startup.pc \in {"probeFallback", "messageFallback"}
  \/ testConn.pc = "probeFallback"
  \/ tr.pc = "chatFallback"
  \/ \E i \in 1..Len(tr.attempts) : tr.attempts[i].fallback

\* C1: when a translate-to-sql request has an array schema and every chat request
\* it made failed (on the configured host and, where tried, on 127.0.0.1), the
\* handler does not throw and returns the SQL of translateSimplePattern for the
\* same text, table name and schema.
C1_FailuresAbsorbed ==
  (tr.pc = "done" /\ tr.schema.isArray /\ AllAttemptsFailed) =>
    /\ ~tr.result.threw
    /\ tr.result = TranslateSimplePattern(tr.text, TableName, tr.schema)

\* Both hosts failed and the where pattern gave the SQL.
C1_Witness ==
  /\ tr.pc = "done" /\ tr.schema.isArray /\ AllAttemptsFailed
  /\ Len(tr.attempts) = 2
  /\ ~tr.result.threw
  /\ Includes(tr.result.sql, <<"W","H","E","R","E">>)

\* C2 (as claimed): with OLLAMA_HOST not set, once translate-to-sql has given up on
\* the LLM (it is at the diagnostic probe or has returned the pattern SQL) after a
\* failure on localhost, it has sent a chat request to 127.0.0.1 on the same port.
C2_FallbackBeforeGivingUp ==
  (tr.pc \in {"probe", "done"} /\ ~env.OLLAMA_HOST.set /\ AllAttemptsFailed)
    => AttemptedFallbackHost

\* C3 (as claimed): when OLLAMA_HOST is set, to any value, none of the startup
\* check, the test-ollama-connection handler and translate-to-sql sends a probe or
\* a chat request to 127.0.0.1 as a fallback.
C3_NoFallbackWhenHostSet ==
  env.OLLAMA_HOST.set => ~FallbackContacted

\* C3 (amended): when OLLAMA_HOST is set to a value that is not the empty string,
\* none of the three sends a probe or a chat request to 127.0.0.1 as a fallback,
\* however the configured host fails. (An OLLAMA_HOST set to the empty string
\* counts as not set: the host is then localhost and the fallback applies.)
C3_NoFallbackWhenHostNonEmpty ==
  Truthy(env.OLLAMA_HOST) => ~FallbackContacted

\* OLLAMA_HOST is the literal localhost, and the startup check, the connection
\* test and a translation refused by the host have all ended in failure.
C3_Witness ==
  /\ env.OLLAMA_HOST = SetTo("localhost")
  /\ startup.pc = "ready" /\ ~startup.status.connected
  /\ testConn.pc = "done" /\ ~testConn.result.success
  /\ tr.pc = "done" /\ AllAttemptsFailed
  /\ IncludesConnectionRefused(tr.message)

\* C4 (as claimed, for values that are not empty): whenever OLLAMA_HOST or
\* OLLAMA_PORT is set, in particular when only OLLAMA_PORT is, none of the startup
\* check, the test-ollama-connection handler and translate-to-sql contacts
\* 127.0.0.1 after localhost failed.
C4_EveryVariableRespected ==
  (Truthy(env.OLLAMA_HOST) \/ Truthy(env.OLLAMA_PORT)) => ~FallbackContacted

(***************************************************************************)
(* Properties of the command runner (SpecRun)                              *)
(***************************************************************************)
\* A chat request or the diagnostic probe of translate-to-sql is pending.
TranslateInFlight == tr.pc \in {"chatPrimary", "chatFallback", "probe"}

\* The run has got the answer of its cache lookup.
PastLookup == run.pc \in {"translate", "execute", "store"}

\* C5 (as claimed): when get-sql-for-command returned a non-empty SQL for the
\* command, the run does not invoke translate-to-sql, no chat request or probe is
\* pending for it, and the SQL it executes is exactly the cached SQL.
C5_CachedSqlExecuted ==
  (PastLookup /\ run.existingSql # Null /\ run.existingSql.val # <<>>) =>
    /\ ~run.translated
    /\ ~TranslateInFlight
    /\ run.sql = run.existingSql

\* C5 (amended): when get-sql-for-command returned a SQL that is not blank (not
\* empty and not only whitespace), the run does not invoke translate-to-sql, no
\* chat request or probe is pending for it, and the SQL it executes is the cached
\* SQL with its surrounding whitespace removed.
C5_NonBlankCachedSqlExecuted ==
  (PastLookup /\ run.existingSql # Null /\ Trim(run.existingSql.val) # <<>>) =>
    /\ ~run.translated
    /\ ~TranslateInFlight
    /\ run.sql = Some(Trim(run.existingSql.val))

\* The padded SQL of commands.txt has been executed, trimmed, without translation.
C5_Witness ==
  /\ run.pc = "store"
  /\ run.existingSql = Some(<<" ", "s", " ">>)
  /\ run.sql = Some(<<"s">>)
  /\ ~run.translated

(***************************************************************************)
(* Properties of the response cleaning (SpecSan)                           *)
(***************************************************************************)
\* C10 (as claimed): for every model response that is not empty after trimming,
\* the cleaning completes without raising, and the cleaned SQL neither begins nor
\* ends with a backtick.
C10_NoEdgeBacktick ==
  (Trim(raw) # <<>> /\ sanpc # "parsed") =>
    /\ sanpc = "resolved"
    /\ cleaned = <<>> \/ (cleaned[1] # Backtick /\ cleaned[Len(cleaned)] # Backtick)

\* The cleaning of makeOllamaRequest as a function of the content (main.js
\* 771-811): no value when the content is blank (the request is rejected), the
\* cleaned SQL otherwise.
Sanitize(content) ==
  IF Trim(content) = <<>> THEN Null ELSE Some(CleanSql(Trim(content)))

\* C11 (as claimed, for responses whose cleaned SQL is not empty): cleaning the
\* cleaned SQL again gives the same string, sanitize(sanitize(x)) = sanitize(x).
C11_Idempotent ==
  (sanpc = "resolved" /\ cleaned # <<>>) => Sanitize(cleaned) = Some(cleaned)

\* C12 (as claimed): for every model response that is not empty after trimming,
\* the SQL that makeOllamaRequest resolves with is not the empty string.
C12_CleanedNotEmpty ==
  (Trim(raw) # <<>> /\ sanpc # "parsed") => (sanpc = "resolved" /\ cleaned # <<>>)

\* C13 (as claimed): for a response made of the opening fence, an optional tag
\* sql in any letter case, a newline, a body without backtick, a newline and the
\* closing fence, the cleaned SQL is the body with its surrounding whitespace
\* removed.
C13_FencedBody ==
  sanpc = "resolved" =>
    \A tag \in FenceTags, body \in FenceBodies :
      raw = FencedForm(tag, body) => cleaned = Trim(body)

(***************************************************************************)
(* Properties of translateSimplePattern (SpecPat)                          *)
(***************************************************************************)
\* The lowercased text of the call.
PatLower == ToLowerCase(pat.text)

HasAllPhrase(lower) ==
  \/ Includes(lower, <<"s","h","o","w"," ","a","l","l">>)
  \/ Includes(lower, <<"s","e","l","e","c","t"," ","a","l","l">>)
  \/ Includes(lower, <<"g","e","t"," ","a","l","l">>)

HasCount(lower) == Includes(lower, <<"c","o","u","n","t">>)

HasWhere(lower) == Includes(lower, <<"w","h","e","r","e">>)

WhereOneEqualsOne == <<" ","W","H","E","R","E"," ","1","=","1">>

WhereColumnEquals(col, val) ==
  <<" ","W","H","E","R","E"," ","\"">> \o col \o <<"\""," ","="," ","'">> \o val \o <<"'">>

\* C14: translateSimplePattern tests the lowercased text in the order all
\* phrases, count, where, default. A text with an all phrase gives
\* SELECT * FROM "<table>"; otherwise a text with count gives
\* SELECT COUNT(*) FROM "<table>", also when it holds where; otherwise a text
\* with where gives a SELECT * FROM "<table>" WHERE ...; any other text gives
\* SELECT * FROM "<table>". The columns of the schema do not enter the result.
C14_Precedence ==
  pat.pc = "returned" =>
    LET lower == PatLower
        sql   == pat.result.sql
    IN  /\ ~pat.result.threw
        /\ HasAllPhrase(lower) => sql = SelectAllFrom(pat.table)
        /\ (~HasAllPhrase(lower) /\ HasCount(lower)) => sql = SelectCountFrom(pat.table)
        /\ (~HasAllPhrase(lower) /\ ~HasCount(lower) /\ HasWhere(lower))
             => StartsWith(sql, SelectAllFrom(pat.table) \o <<" ","W","H","E","R","E"," ">>)
        /\ (~HasAllPhrase(lower) /\ ~HasCount(lower) /\ ~HasWhere(lower))
             => sql = SelectAllFrom(pat.table)
        /\ \A sc \in PatSchemas :
             pat.result = TranslateSimplePattern(pat.text, pat.table, sc)

\* A text with Count and where, and no all phrase, gave the count query.
C14_Witness ==
  /\ pat.pc = "returned"
  /\ HasCount(PatLower) /\ HasWhere(PatLower) /\ ~HasAllPhrase(PatLower)
  /\ Includes(pat.text, <<"C","o","u","n","t">>)
  /\ pat.result.sql = SelectCountFrom(pat.table)

\* Every character of s from position a up to position b - 1 is a blank, a word
\* character, or no quote.
WsBetween(s, a, b) == \A i \in a..(b - 1) : IsWs(s[i])

WordBetween(s, a, b) == \A i \in a..(b - 1) : IsWordChar(s[i])

NoQuoteBetween(s, a, b) == \A i \in a..(b - 1) : ~IsQuote(s[i])

\* The readings of s as  where <blanks> <word> <blanks>? = <blanks>? <quote>?
\* <value>: the word is a run of word characters, the value a run of
\* characters other than quotes that ends at a quote or at the end of s.
WhereClauses(s) ==
  LET n == Len(s)
      P == { p \in 1..n : HasAt(s, p, <<"w","h","e","r","e">>) }
      A(p) == { a \in (p + 6)..n : WsBetween(s, p + 5, a) }
      B(a) == { b \in (a + 1)..n : WordBetween(s, a, b) }
      C(b) == { c \in b..n : WsBetween(s, b, c) /\ s[c] = "=" }
      D(c) == { d \in (c + 1)..n : WsBetween(s, c + 1, d) }
      Q(d) == {d} \cup (IF IsQuote(s[d]) THEN {d + 1} ELSE {})
      E(q) == { e \in (q + 1)..(n + 1) :
                  /\ NoQuoteBetween(s, q, e)
                  /\ (e = n + 1 \/ IsQuote(s[e])) }
  IN  UNION { UNION { UNION { UNION { UNION { UNION {
        { [col |-> SubSeq(s, a, b - 1), val |-> SubSeq(s, q, e - 1)] : e \in E(q) }
          : q \in Q(d) } : d \in D(c) } : c \in C(b) } : b \in B(a) } : a \in A(p) } : p \in P }

\* C15: for a text with where and neither an all phrase nor count, when the
\* lowercased text reads as  where <word> = <value>  the result is
\* SELECT * FROM "<table>" WHERE "<word>" = '<value>' for such a reading, with
\* no single or double quote inside the value; when it does not read so, the
\* result is SELECT * FROM "<table>" WHERE 1=1.
C15_WhereClause ==
  (/\ pat.pc = "returned"
   /\ HasWhere(PatLower) /\ ~HasAllPhrase(PatLower) /\ ~HasCount(PatLower)) =>
    LET clauses == WhereClauses(PatLower)
    IN  /\ ~pat.result.threw
        /\ clauses # {} =>
             \E m \in clauses :
               /\ pat.result.sql = SelectAllFrom(pat.table) \o WhereColumnEquals(m.col, m.val)
               /\ \A i \in 1..Len(m.val) : ~IsQuote(m.val[i])
        /\ clauses = {} =>
             pat.result.sql = SelectAllFrom(pat.table) \o WhereOneEqualsOne

\* A text  ...WHERE a='B  gave WHERE "a" = 'b': the value is lowercased and its
\* opening quote is dropped.
C15_Witness ==
  /\ pat.pc = "returned"
  /\ Includes(pat.text, <<"W","H","E","R","E"," ","a","=","'","B">>)
  /\ pat.result.sql = SelectAllFrom(pat.table) \o WhereColumnEquals(<<"a">>, <<"b">>)

(***************************************************************************)
(* Properties of the audit log (Spec)                                      *)
(***************************************************************************)
\* A chat request of the translate-to-sql run settles in this step.
ChatSettles ==
  /\ tr.pc \in {"chatPrimary", "chatFallback"}
  /\ Len(tr'.attempts) = Len(tr.attempts) + 1

\* The records this step adds to the end of the log.
Appended ==
  SubSeq(llmLog'.records, Len(llmLog.records) + 1, Len(llmLog'.records))

TimeoutRecordError == "Request timeout - model may be processing slowly"

\* C16: in the step in which a chat request settles, whatever its outcome, the
\* log has received a record for it: the prompt with the response when the
\* request succeeded, the prompt with the error when it failed.
C16_LoggedBeforeDelivered ==
  [][ChatSettles =>
        LET a == tr'.attempts[Len(tr'.attempts)]
        IN  /\ Appended # <<>>
            /\ Appended[1].prompt = tr.text
            /\ a.ok => (Appended[1].error = "" /\ Appended[1].response = "data")
            /\ ~a.ok => (Appended[1].error # "" /\ Appended[1].response = "")]_vars

\* The request to the configured host timed out: the run holds OLLAMA_TIMEOUT as
\* the error and the log holds the timeout record.
C16_Witness ==
  /\ Len(tr.attempts) = 1
  /\ ~tr.attempts[1].ok
  /\ tr.message = "OLLAMA_TIMEOUT"
  /\ llmLog.records # <<>>
  /\ llmLog.records[1].prompt = tr.text
  /\ llmLog.records[1].error = TimeoutRecordError

\* The records the current translate-to-sql run has added to the log.
RunRecords == SubSeq(llmLog.records, tr.logged + 1, Len(llmLog.records))

ConnectionRefusedTo(host, port) == "Connection refused to " \o host \o ":" \o port

\* The run went to localhost and to 127.0.0.1 and both refused the connection.
BothRefused ==
  /\ Len(tr.attempts) = 2
  /\ tr.attempts[1].host = "localhost"
  /\ tr.attempts[1].message = ConnectionRefusedTo("localhost", OllamaPort(env))
  /\ tr.attempts[2].host = "127.0.0.1"
  /\ tr.attempts[2].message = ConnectionRefusedTo("127.0.0.1", OllamaPort(env))

\* The records of the fallback notice, one for each result of the diagnostic
\* probe: the first error followed by the result of the connection test.
FallbackNotices ==
  { LogRecord(tr.text, "FALLBACK_TO_PATTERN_MATCHING",
              tr.message \o ". Connection test: " \o ConnectionTestJson(TestOllamaConnection(o))) :
      o \in ProbeOutcomes }

\* C17: with OLLAMA_HOST not set, a translate-to-sql request (with an array
\* schema) that found the connection refused on localhost and on 127.0.0.1
\* returns the SQL of translateSimplePattern and has added exactly three records
\* to the log, in this order: the refusal by localhost, the refusal by 127.0.0.1,
\* the fallback notice.
C17_ThreeRecords ==
  (tr.pc = "done" /\ ~env.OLLAMA_HOST.set /\ tr.schema.isArray /\ BothRefused) =>
    /\ tr.result = TranslateSimplePattern(tr.text, TableName, tr.schema)
    /\ Len(RunRecords) = 3
    /\ RunRecords[1] = LogRecord(tr.text, "", ConnectionRefusedTo("localhost", OllamaPort(env)))
    /\ RunRecords[2] = LogRecord(tr.text, "", ConnectionRefusedTo("127.0.0.1", OllamaPort(env)))
    /\ RunRecords[3] \in FallbackNotices

\* Both hosts refused, the diagnostic probe was refused as well, and the three
\* records are in the log.
C17_Witness ==
  /\ tr.pc = "done" /\ ~env.OLLAMA_HOST.set /\ tr.schema.isArray /\ BothRefused
  /\ ~tr.result.threw
  /\ Len(llmLog.records) = 3
  /\ llmLog.records[3].error
       = ConnectionRefusedTo("localhost", OllamaPort(env))
           \o ". Connection test: {success:false,error:ECONNREFUSED}"

\* s is a prefix of t.
IsPrefix(s, t) == Len(s) <= Len(t) /\ SubSeq(t, 1, Len(s)) = s

\* C18: once the startup clearing is done, every step leaves the old content of
\* the log as a prefix of the new content and never removes the file; the one
\* step that empties the log is clearLogFiles, the first step of the startup.
C18_AppendOnly ==
  [][/\ startup.pc # "init" =>
          /\ IsPrefix(llmLog.records, llmLog'.records)
          /\ llmLog.exists => llmLog'.exists
     /\ ~IsPrefix(llmLog.records, llmLog'.records) =>
          (startup.pc = "init" /\ startup'.pc # "init" /\ llmLog'.records = <<>>)]_vars

\* The log of an earlier session was emptied at startup, and a translation that
\* timed out has since added three records, one after the other.
C18_Witness ==
  /\ startup.pc # "init"
  /\ tr.pc = "done"
  /\ Len(llmLog.records) = 3
  /\ llmLog.records[1].error = TimeoutRecordError
  /\ llmLog.records[2].error = "Connection error (ECONNRESET): socket hang up"
  /\ llmLog.records[3].prompt = tr.text

(***************************************************************************)
(* Properties of the requests of translate-to-sql (Spec)                   *)
(***************************************************************************)
\* The chat requests the current run has issued: those settled and the one
\* pending.
ChatRequestsIssued ==
  Len(tr.attempts) + (IF tr.pc \in {"chatPrimary", "chatFallback"} THEN 1 ELSE 0)

\* C19: a translate-to-sql run issues at most two chat requests: the first to the
\* configured host, the second, if any, to 127.0.0.1, which is then another host
\* than the first; the second is issued only after the first was refused the
\* connection, so not after a timeout, an HTTP error or a parse error.
C19_AtMostTwoRequests ==
  /\ ChatRequestsIssued <= 2
  /\ tr.pc = "chatPrimary" => tr.attempts = <<>>
  /\ tr.pc = "chatFallback" => Len(tr.attempts) = 1
  /\ Len(tr.attempts) >= 1 =>
       /\ tr.attempts[1].host = OllamaHost(env)
       /\ ~tr.attempts[1].fallback
       /\ (tr.pc = "chatFallback" \/ Len(tr.attempts) = 2) =>
            /\ ~tr.attempts[1].ok
            /\ tr.attempts[1].message
                 = ConnectionRefusedTo(OllamaHost(env), OllamaPort(env))
  /\ Len(tr.attempts) = 2 =>
       /\ tr.attempts[2].host = "127.0.0.1"
       /\ tr.attempts[2].fallback
       /\ tr.attempts[1].host # tr.attempts[2].host

\* localhost refused the connection and the second request, to 127.0.0.1, gave
\* the SQL.
C19_Witness ==
  /\ tr.pc = "done"
  /\ Len(tr.attempts) = 2
  /\ ~tr.attempts[1].ok
  /\ tr.attempts[2].ok
  /\ tr.attempts[2].host = "127.0.0.1"
  /\ ~tr.result.threw
  /\ tr.result.sql # <<>>

(***************************************************************************)
(* Properties of the storing of SQL by the runner (SpecRun)                *)
(***************************************************************************)
\* The latest entry handed to handleCommandResult.
LastCommandResult == commandResults[Len(commandResults)]

\* C20: insert-sql-into-commands-file is invoked only by a run whose SQL has just
\* been executed without error, for the command of that run and with the SQL
\* that was executed; commands.txt changes in no other step; and a step that
\* reports a failed translation or a failed execution ends the run without
\* touching commands.txt.
C20_InsertAfterExecution ==
  [][/\ inserts' # inserts =>
          /\ run.pc = "store"
          /\ commandResults # <<>>
          /\ LastCommandResult = CommandResult(run.naturalLanguage, run.sql, FALSE)
          /\ Len(inserts') = Len(inserts) + 1
          /\ SubSeq(inserts', 1, Len(inserts)) = inserts
          /\ inserts'[Len(inserts')].cmd = run.naturalLanguage
          /\ Some(inserts'[Len(inserts')].sql) = run.sql
     /\ commandsTxt' # commandsTxt => inserts' # inserts
     /\ (/\ Len(commandResults') = Len(commandResults) + 1
         /\ commandResults'[Len(commandResults')].failed) =>
          /\ commandsTxt' = commandsTxt
          /\ inserts' = inserts
          /\ run' = RunIdle]_vars

\* A translated SQL was executed and then stored: commands.txt now answers the
\* command with that SQL.
C20_Witness ==
  /\ Len(inserts) = 1
  /\ ~inserts[1].threw
  /\ Len(commandResults) = 1
  /\ commandResults[1] = CommandResult(inserts[1].cmd, Some(inserts[1].sql), FALSE)
  /\ llmLog.records # <<>>
  /\ GetSqlForCommand(commandsTxt, inserts[1].cmd) = Some(inserts[1].sql)

(***************************************************************************)
(* Properties of comment lines (SpecCache)                                 *)
(***************************************************************************)
\* App.svelte 366: line.startsWith('#'), on the trimmed line.
IsComment(line) == StartsWith(Trim(line), <<"#">>)

\* The line of file that the loops of the two handlers stop at for commandText
\* is a comment.
MatchedComment(file, commandText) ==
  /\ file.exists
  /\ LET lines == LinesOf(file)
         i     == FoundIndex(lines, commandText)
     IN  i # 0 /\ IsComment(lines[i])

\* C21 (as claimed): a line of commands.txt that starts with '#' is never treated
\* as a command: it is not in the list loadCommands builds, and it is not the
\* line that get-sql-for-command or insert-sql-into-commands-file matches,
\* whatever the command text of the call.
C21_CommentNeverMatched ==
  /\ commandsTxt.exists =>
       LET cs == FilterCommands(LinesOf(commandsTxt))
       IN  \A i \in 1..Len(cs) : ~IsComment(cs[i])
  /\ lastGet.made => ~MatchedComment(lastGet.before, cmdArg)
  /\ inserts # <<>> =>
       ~MatchedComment(inserts[Len(inserts)].before, inserts[Len(inserts)].cmd)

(***************************************************************************)
(* Properties of testOllamaConnection (Spec)                               *)
(***************************************************************************)
\* The results a probe may resolve with: for a response, success exactly when the
\* status is 200, with the status code; for a transport error, failure with the
\* error code; for the timeout, failure with ETIMEDOUT.
ProbeResults ==
  { [rejected |-> FALSE, success |-> (o.statusCode = 200), statusCode |-> o.statusCode,
     error |-> ""] : o \in { x \in ProbeOutcomes : x.kind = "response" } }
  \cup
  { [rejected |-> FALSE, success |-> FALSE, statusCode |-> 0, error |-> o.code] :
      o \in { x \in ProbeOutcomes : x.kind = "error" } }
  \cup
  { [rejected |-> FALSE, success |-> FALSE, statusCode |-> 0, error |-> "ETIMEDOUT"] }

\* A probe of the test-ollama-connection handler, or of the startup check, ends in
\* this step.
TestProbeEnds == testConn.pc \in {"probePrimary", "probeFallback"} /\ testConn' # testConn

StartupProbeEnds == startup.pc \in {"probePrimary", "probeFallback"} /\ startup' # startup

\* C22: a probe always resolves, with a result of the three kinds above, and the
\* step in which it ends writes nothing to the log and nothing to commands.txt.
C22_ProbeResolves ==
  [][/\ TestProbeEnds =>
          /\ llmLog' = llmLog
          /\ commandsTxt' = commandsTxt
          /\ (IF testConn'.pc = "probeFallback" THEN testConn'.first ELSE testConn'.result)
               \in ProbeResults
     /\ StartupProbeEnds =>
          /\ llmLog' = llmLog
          /\ commandsTxt' = commandsTxt
          /\ startup'.first \in ProbeResults \cup {NoResult}]_vars

\* The handler has returned the result of a probe that timed out, and the log is
\* as the startup left it.
C22_Witness ==
  /\ testConn.pc = "done"
  /\ ~testConn.result.success
  /\ testConn.result.error = "ETIMEDOUT"
  /\ llmLog.records = <<>>

(***************************************************************************)
(* Properties of the order of the translation stages (SpecRun)             *)
(***************************************************************************)
\* The lookup of the running command gave SQL that is not blank.
CacheGaveSql == run.existingSql # Null /\ Trim(run.existingSql.val) # <<>>

\* No chat request of the translate-to-sql run has returned SQL.
NoAttemptGaveSql == \A i \in 1..Len(tr.attempts) : ~tr.attempts[i].ok

\* A chat request of the run settles in this step.
ChatSettlesInRun == tr.pc \in {"chatPrimary", "chatFallback"} /\ tr'.pc # tr.pc

\* translateSimplePattern is called in this step.
PatternInvoked == tr.pc = "probe" /\ tr'.pc = "done" /\ ~tr'.result.threw

\* C23: the stages of a command come in the order cache lookup, configured host,
\* fallback host, pattern matching, each only after the earlier ones gave no SQL:
\* a chat request settles only in a run whose lookup gave no SQL and whose earlier
\* chat requests failed, the first one on the configured host and the second on
\* 127.0.0.1; translateSimplePattern is called only after the lookup and every
\* chat request of the run failed.
C23_StageOrder ==
  [][/\ ChatSettlesInRun =>
          /\ run.pc = "translate"
          /\ ~CacheGaveSql
          /\ NoAttemptGaveSql
          /\ Len(tr'.attempts) = Len(tr.attempts) + 1
          /\ LET a == tr'.attempts[Len(tr'.attempts)]
             IN  IF Len(tr.attempts) = 0
                 THEN ~a.fallback /\ a.host = OllamaHost(env)
                 ELSE /\ Len(tr.attempts) = 1
                      /\ a.fallback /\ a.host = "127.0.0.1"
                      /\ ~tr.attempts[1].fallback
     /\ PatternInvoked =>
          /\ run.pc = "translate"
          /\ ~CacheGaveSql
          /\ tr.attempts # <<>>
          /\ ~tr.attempts[1].fallback
          /\ NoAttemptGaveSql
          /\ tr'.attempts = tr.attempts]_vars

\* A command went through all four stages: the lookup gave nothing, both chat
\* requests failed and the pattern matching gave the SQL.
C23_Witness ==
  /\ run.pc = "translate"
  /\ ~CacheGaveSql
  /\ tr.pc = "done"
  /\ Len(tr.attempts) = 2
  /\ NoAttemptGaveSql
  /\ ~tr.result.threw
  /\ tr.result.sql # <<>>

(***************************************************************************)
(* Properties of the host of the chat requests (Spec)                      *)
(***************************************************************************)
\* The hosts of the chat requests the translate-to-sql run has issued, in order.
RequestHosts == [i \in 1..Len(tr.attempts) |-> tr.attempts[i].host]

\* The startup check, or the last test-ollama-connection, found 127.0.0.1 working
\* after localhost had failed.
FallbackWorkedBefore ==
  \/ startup.pc = "ready" /\ startup.status.connected /\ startup.status.host = "127.0.0.1"
  \/ testConn.pc = "done" /\ testConn.result.success /\ testConn.host = "127.0.0.1"

TimeoutExpires ==
  /\ ChatSettles
  /\ Appended # <<>>
  /\ Appended[1].error = TimeoutRecordError

\* The fallback notices among the records of the run: one for each diagnostic
\* probe the run has made.
ProbesMade ==
  { i \in 1..Len(RunRecords) :
      /\ RunRecords[i].prompt = tr.text
      /\ \E o \in ProbeOutcomes :
           RunRecords[i].error =
             tr.message \o ". Connection test: " \o ConnectionTestJson(TestOllamaConnection(o)) }

\* C25: when every HTTP request ends, a translate-to-sql request returns: it goes
\* from waiting to its result, with at most two chat requests and one diagnostic
\* probe, and a chat request whose timeout expired is a failed one: it delivers
\* no SQL, whatever part of a response had arrived.
C25_TranslateReturns ==
  /\ (TranslateInFlight ~> tr.pc = "done")
  /\ [](Len(tr.attempts) <= 2 /\ Cardinality(ProbesMade) <= 1)
  /\ [][TimeoutExpires =>
          /\ ~tr'.attempts[Len(tr'.attempts)].ok
          /\ tr'.attempts[Len(tr'.attempts)].message = "OLLAMA_TIMEOUT"
          /\ tr'.pc # "done"]_vars

\* A request returned after its chat request timed out: the result is that of
\* translateSimplePattern, reached through one chat request and one probe.
C25_Witness ==
  /\ tr.pc = "done"
  /\ Len(tr.attempts) = 1
  /\ tr.attempts[1].message = "OLLAMA_TIMEOUT"
  /\ Cardinality(ProbesMade) = 1
  /\ tr.schema.isArray
  /\ tr.result = TranslateSimplePattern(tr.text, TableName, tr.schema)

(***************************************************************************)
(* The effect of one insertion on commands.txt (SpecCache)                 *)
(***************************************************************************)
\* The SQL has no line break.
SingleLine(sql) == \A i \in 1..Len(sql) : sql[i] # NL

\* Call k of insert-sql-into-commands-file returned, with a single-line SQL.
InsertedSingleLine(k) == ~inserts[k].threw /\ SingleLine(inserts[k].sql)

\* The lines a and b are the same but for the one line put into a at position at + 1.
OneLineInserted(b, a, at, line) ==
  /\ Len(a) = Len(b) + 1
  /\ a[at + 1] = line
  /\ \A j \in 1..at : a[j] = b[j]
  /\ \A j \in (at + 1)..Len(b) : a[j + 1] = b[j]

\* C26: an insertion of a single-line SQL that returned has changed commands.txt
\* by one line, '[' + sql + ']', put directly after the first line whose trimmed
\* text is the command; every line the file had is still there, unchanged and in
\* the same order, the bracketed lines among them.
C26_OneLineInserted ==
  \A k \in 1..Len(inserts) :
    InsertedSingleLine(k) =>
      LET b == LinesOf(inserts[k].before)
          a == LinesOf(inserts[k].after)
      IN  /\ inserts[k].before.exists /\ inserts[k].after.exists
          /\ \E at \in 1..Len(b) :
               /\ Trim(b[at]) = inserts[k].cmd
               /\ \A j \in 1..(at - 1) : Trim(b[j]) # inserts[k].cmd
               /\ OneLineInserted(b, a, at, <<"[">> \o inserts[k].sql \o <<"]">>)

\* A single-line SQL was inserted for a command that is on two lines of the file,
\* the first of them followed by a bracketed line, which is kept.
C26_Witness ==
  /\ inserts # <<>>
  /\ InsertedSingleLine(1)
  /\ LET b == LinesOf(inserts[1].before)
     IN  /\ Len(b) = 3
         /\ Trim(b[1]) = inserts[1].cmd
         /\ StartsWith(b[2], <<"[">>)
         /\ Trim(b[3]) = inserts[1].cmd
         /\ LinesOf(inserts[1].after)[3] = b[2]

(***************************************************************************)
(* The guard of handleExecuteNextCommand (SpecGuard)                       *)
(***************************************************************************)
\* A call is turned away by the guard in this step.
CallTurnedAway == ~run.rejected /\ run'.rejected

\* A call goes past the guard in this step.
CallGoesPastGuard == run'.pc = "lookup" /\ run.pc # "lookup"

\* The call that was past the guard ends in this step.
CallEnds == run.pc # "idle" /\ run'.pc = "idle"

\* C27: one call of handleExecuteNextCommand at most is past the guard: the flag
\* executingCommand is set exactly while one is; a call that comes while the flag
\* is set is turned away and translates, executes, stores and advances nothing,
\* and no call goes past the guard then; the call that set the flag leaves it
\* cleared when it ends, however it ends.
C27_SingleFlight ==
  /\ [](executingCommand <=> run.pc # "idle")
  /\ [][/\ executingCommand => ~CallGoesPastGuard
        /\ (executingCommand /\ CallTurnedAway) =>
             /\ run' = [run EXCEPT !.rejected = TRUE]
             /\ UNCHANGED <<commands, currentCommandIndex, commandsLoaded, executingCommand,
                            commandResults, commandsTxt, inserts, tr, llmLog>>
        /\ CallEnds => ~executingCommand']_vars

\* A call was turned away while another one was waiting for its translation.
C27_Witness ==
  /\ executingCommand
  /\ run.pc = "translate"
  /\ run.rejected

(***************************************************************************)
(* The commands list across an insertion (SpecRun)                         *)
(***************************************************************************)
\* The run stores its SQL in this step: the insertion returns and the commands
\* are loaded again.
StoresSql ==
  /\ run.pc = "store"
  /\ Len(inserts') = Len(inserts) + 1
  /\ ~inserts'[Len(inserts')].threw

\* C28 (as claimed): the reload that follows the insertion of the SQL of a
\* command gives the commands list it was, for every SQL the translator returns.
C28_CommandsUnchanged ==
  [][StoresSql => commands' = commands]_vars

(***************************************************************************)
(* The position of the runner in the commands list (SpecRun)               *)
(***************************************************************************)
RECURSIVE Succeeded(_)
\* The commands of the results that report no error, in the order of the results.
Succeeded(results) ==
  IF results = <<>> THEN <<>>
  ELSE LET rest == Succeeded(SubSeq(results, 1, Len(results) - 1))
           last == results[Len(results)]
       IN  IF last.failed THEN rest ELSE Append(rest, last.naturalLanguage)

\* The number of commands that are done: those below the index, and the one the
\* run has executed and is about to store.
CommandsDone == IF run.pc = "store" THEN currentCommandIndex + 1 ELSE currentCommandIndex

StatusSettled ==
  /\ startup.pc = "ready"
  /\ renderer.loaded
  /\ renderer.timer = "done"

\* C30 (as claimed): whichever of the page load and the startup check ends first,
\* the renderer ends with the status the startup check computed.
C30_StatusDelivered ==
  StatusSettled =>
    /\ renderer.llmStatus.set
    /\ renderer.llmStatus.connected = startup.status.connected
    /\ renderer.llmStatus.host = startup.status.host

=============================================================================
